---------------------------- MODULE Spec2Model ----------------------------
(***************************************************************************)
(* Model of the MCP2517FD driver (atlas-aero/rt-mcp2517): the SPI command  *)
(* engine, the mode controller, configure, transmit and receive of         *)
(* src/src/can.rs, with the register and message codecs they use.          *)
(*                                                                         *)
(* One public call runs at a time.  Every bus transaction of the call is   *)
(* appended to `trace` as the chip-select and transfer events the code     *)
(* issues; the chip, the bus and the clock answer nondeterministically.    *)
(***************************************************************************)
EXTENDS Integers, Sequences, FiniteSets, TLC

VARIABLES
    op,             \* the public operation in progress
    pc,             \* position inside the operation
    trace,          \* pin, bus and clock events issued so far by the call
    result,         \* the value returned by the call
    config,         \* configure: the Configuration argument
    now,            \* the clock's last reading
    mode,           \* enable_mode: the requested OperationMode
    timeout_error,  \* enable_mode: the error to report on timeout
    target,         \* enable_mode: the deadline instant
    current_mode,   \* enable_mode: the mode seen by the last poll
    polls,          \* reads made by the call that sent a loop round again
    message,        \* transmit: the TxMessage argument
    blocking,       \* the blocking mode the caller asks for
    user_address,   \* transmit/receive: value read from the user-address SFR
    data,           \* receive: the caller's buffer
    fifo_index,     \* enable_filter: the FIFO argument
    filter_index,   \* enable_filter/disable_filter: the filter argument
    filter,         \* set_filter_object: the Filter argument
    new_type,       \* TxMessage::new: the message_type argument
    new_data,       \* TxMessage::new: the data argument
    new_id,         \* TxMessage::new: the identifier argument
    register_byte,  \* the byte an encoder returned
    decoded,        \* the ClockConfiguration decoded from a register byte
    image,          \* the bytes the bit-time and FIFO encoders returned
    can_frame,      \* CanFrame::new: the frame built
    calls           \* CanFrame::id: the calls of id() in progress

vars == <<op, pc, trace, result, config, now, mode, timeout_error, target,
          current_mode, polls, message, blocking, user_address, data,
          fifo_index, filter_index, filter, new_type, new_data, new_id,
          register_byte, decoded, image, can_frame, calls>>

emVars == <<mode, timeout_error, target, current_mode>>
argVars == <<config, message, blocking, fifo_index, filter_index, filter,
             new_type, new_data, new_id, register_byte, decoded, image, can_frame, calls>>
\* the arguments of TxMessage::new
newVars == <<new_type, new_data, new_id>>
\* the values of the encoders and decoders of config.rs
encVars == <<register_byte, decoded, image>>
\* the frame of frame.rs and the depth of the calls made on it
frameVars == <<can_frame, calls>>

-----------------------------------------------------------------------------
(* Bounds of the model *)

\* the loops of one call are followed for at most this many reads that send a
\* loop round again
MaxPolls == 2
\* the longest payload TxMessage::new is called with
MaxPayload == 65
\* the calls of one function nested in each other are followed to this depth
MaxCalls == 3
\* the largest instant the clock can represent
ClockMax == 7

-----------------------------------------------------------------------------
(* Machine arithmetic *)

RECURSIVE BitAnd(_, _)
BitAnd(a, b) ==
    IF a = 0 \/ b = 0 THEN 0
    ELSE (IF a % 2 = 1 /\ b % 2 = 1 THEN 1 ELSE 0) + 2 * BitAnd(a \div 2, b \div 2)

RECURSIVE BitOr(_, _)
BitOr(a, b) ==
    IF a = 0 THEN b
    ELSE IF b = 0 THEN a
    ELSE (IF a % 2 = 1 \/ b % 2 = 1 THEN 1 ELSE 0) + 2 * BitOr(a \div 2, b \div 2)

Shl(a, n) == a * (2 ^ n)
Shr(a, n) == a \div (2 ^ n)
U8(x) == x % 256
U16(x) == x % 65536

Min(a, b) == IF a < b THEN a ELSE b
Max(a, b) == IF a > b THEN a ELSE b

\* u32::to_le_bytes
to_le_bytes(v) == << v % 256, Shr(v, 8) % 256, Shr(v, 16) % 256, Shr(v, 24) % 256 >>
\* u32::from_be_bytes
from_be_bytes(b) == Shl(b[1], 24) + Shl(b[2], 16) + Shl(b[3], 8) + b[4]

-----------------------------------------------------------------------------
(* Constants of can.rs *)

REGISTER_C1CON == 0
REGISTER_OSC == 3584
REGISTER_C1NBTCFG == 4
FIFO_RX_INDEX == 1
FIFO_TX_INDEX == 2

OperationReset == 0
OperationWrite == 2
OperationRead == 3

(* status.rs: OperationMode discriminants *)
NormalCANFD == 0
Sleep == 1
InternalLoopback == 2
ListenOnly == 3
Configuration == 4
ExternalLoopback == 5
NormalCAN2_0 == 6
RestrictedOperation == 7

\* OperationMode::from_register
OperationModeFromRegister(register) == Shr(register, 5)

\* the 2 ms of enable_mode, in clock ticks (one tick is one millisecond)
TimeoutMs == 2

-----------------------------------------------------------------------------
(* Results *)

Ok(v) == [t |-> "Ok", v |-> v]
Err(tag, v) == [t |-> tag, v |-> v]
NoResult == [t |-> "None", v |-> 0]

\* error values a failing pin and a failing bus report
PinErrorValue == 21
BusErrorValue == 55

CSError == Err("CSError", PinErrorValue)
TransferError == Err("TransferError", BusErrorValue)

-----------------------------------------------------------------------------
(* Events of the trace *)

\* e: the event; ok: whether it succeeded; tx: the bytes sent; rx: the bytes
\* received (for a clock reading, the instant)
EvLow(ok) == [e |-> "low", ok |-> ok, tx |-> << >>, rx |-> << >>]
EvHigh(ok) == [e |-> "high", ok |-> ok, tx |-> << >>, rx |-> << >>]
EvXfer(ok, tx, rx) == [e |-> "xfer", ok |-> ok, tx |-> tx, rx |-> rx]
\* a further transfer inside the chip-select cycle of the one before
EvData(ok, tx, rx) == [e |-> "data", ok |-> ok, tx |-> tx, rx |-> rx]
EvNow(ok, t) == [e |-> "now", ok |-> ok, tx |-> << >>, rx |-> << t >>]

\* what may happen to a three-byte transaction issued through transfer()
TransferOutcomes == {"ok", "low_err", "xfer_err", "high_err", "xfer_high_err"}
\* what may happen to a transaction that drives the pin itself
DirectOutcomes == {"ok", "low_err", "xfer_err", "high_err"}

-----------------------------------------------------------------------------
(* SPI command engine *)

\* (register & 0x0FFF) | (operation << 12)
Command(register, operation) == BitOr(BitAnd(register, 4095), Shl(operation, 12))

cmd_buffer(register, operation) ==
    << Shr(Command(register, operation), 8), Command(register, operation) % 256, 0 >>

\* transfer(): chip-select low, the transfer, chip-select high (also after a
\* failed transfer), then the transfer's result
transfer(buffer, rx, out) ==
    IF out = "low_err"
    THEN [ev |-> << EvLow(FALSE) >>, res |-> CSError]
    ELSE [ev |-> << EvLow(TRUE),
                    EvXfer(out \notin {"xfer_err", "xfer_high_err"}, buffer, rx),
                    EvHigh(out \notin {"high_err", "xfer_high_err"}) >>,
          res |-> IF out \in {"high_err", "xfer_high_err"} THEN CSError
                  ELSE IF out = "xfer_err" THEN TransferError
                  ELSE Ok(rx[3])]

\* the bus answers a write with bytes the driver ignores
write_register(register, value, out) ==
    transfer([cmd_buffer(register, OperationWrite) EXCEPT ![3] = value], << 0, 0, 0 >>, out)

\* b: the byte the chip answers with
read_register(register, b, out) ==
    transfer(cmd_buffer(register, OperationRead), << 0, 0, b >>, out)

\* a transaction that returns at the first failing step: no set_high after a
\* failed transfer
DirectTransaction(buffer, rx, out) ==
    IF out = "low_err"
    THEN [ev |-> << EvLow(FALSE) >>, res |-> CSError]
    ELSE IF out = "xfer_err"
    THEN [ev |-> << EvLow(TRUE), EvXfer(FALSE, buffer, rx) >>, res |-> TransferError]
    ELSE [ev |-> << EvLow(TRUE), EvXfer(TRUE, buffer, rx), EvHigh(out # "high_err") >>,
          res |-> IF out = "high_err" THEN CSError ELSE Ok(0)]

write32(register, value, out) ==
    DirectTransaction(
        << Shr(Command(register, OperationWrite), 8),
           Command(register, OperationWrite) % 256 >> \o to_le_bytes(value),
        << 0, 0, 0, 0, 0, 0 >>, out)

\* a u32 is held as its two 16-bit halves
U32FromLeBytes(b) == [hi |-> b[3] + 256 * b[4], lo |-> b[1] + 256 * b[2]]

\* b: the four register bytes the chip answers with, lowest address first;
\* the value read is u32::from_le_bytes of them
read32(register, b, out) ==
    DirectTransaction(
        << Shr(Command(register, OperationRead), 8),
           Command(register, OperationRead) % 256, 0, 0, 0, 0 >>,
        << 0, 0 >> \o b, out)

\* the FIFO index taken as zero-based
fifo_control_register_zero_based(index) == 92 + 12 * index
fifo_control_register(index) == 92 + 12 * (index - 1)
fifo_status_register(index) == 96 + 12 * (index - 1)
fifo_user_address_register(index) == 100 + 12 * (index - 1)
\* the index taken as that of a 32-bit word
filter_control_register_byte_of_word(index) == 464 + 4 * index
filter_control_register_byte(index) == 464 + index
filter_object_register(index) == 496 + 8 * index
\* the mask register taken at the address of the object register
filter_mask_register_at_object(index) == 496 + 8 * index
filter_mask_register(index) == 500 + 8 * index

-----------------------------------------------------------------------------
(* config.rs *)

ClockOutputDivisor == [DivideBy10 |-> 3, DivideBy4 |-> 2, DivideBy2 |-> 1, DivideBy1 |-> 0]
SystemClockDivisor == [DivideBy2 |-> 1, DivideBy1 |-> 0]
PLLSetting == [TenTimesPLL |-> 1, DirectXTALOscillator |-> 0]
PayloadSize == [EightBytes |-> 0, TwelveBytes |-> 1, SixteenBytes |-> 2,
                TwentyBytes |-> 3, TwentyFourBytes |-> 4, ThirtyTwoBytes |-> 5,
                FortyEightBytes |-> 6, SixtyFourBytes |-> 7]
RetransmissionAttempts == [Disabled |-> 0, Three |-> 1, Unlimited |-> 2]

BoolU8(b) == IF b THEN 1 ELSE 0

\* ClockConfiguration::as_register
as_register(clock) ==
    BitOr(BitOr(BitOr(Shl(clock.clock_output, 5), Shl(clock.system_clock, 4)),
                Shl(BoolU8(clock.disable_clock), 2)),
          clock.pll)

\* the clock output read from bits 7-6
ClockOutputDivisor_from_register_high(r) ==
    CASE Shr(r, 6) = 3 -> ClockOutputDivisor.DivideBy10
      [] Shr(r, 6) = 2 -> ClockOutputDivisor.DivideBy4
      [] Shr(r, 6) = 1 -> ClockOutputDivisor.DivideBy2
      [] OTHER -> ClockOutputDivisor.DivideBy1
\* ClockOutputDivisor::from_register: match register >> 5
ClockOutputDivisor_from_register(r) ==
    CASE Shr(r, 5) = 3 -> ClockOutputDivisor.DivideBy10
      [] Shr(r, 5) = 2 -> ClockOutputDivisor.DivideBy4
      [] Shr(r, 5) = 1 -> ClockOutputDivisor.DivideBy2
      [] OTHER -> ClockOutputDivisor.DivideBy1
\* SystemClockDivisor::from_register
SystemClockDivisor_from_register(r) ==
    IF BitAnd(r, Shl(1, 4)) # 0 THEN SystemClockDivisor.DivideBy2
    ELSE SystemClockDivisor.DivideBy1
\* PLLSetting::from_register
PLLSetting_from_register(r) ==
    IF BitAnd(r, 1) # 0 THEN PLLSetting.TenTimesPLL ELSE PLLSetting.DirectXTALOscillator
\* ClockConfiguration::from_register
from_register(r) ==
    [clock_output |-> ClockOutputDivisor_from_register(r),
     system_clock |-> SystemClockDivisor_from_register(r),
     disable_clock |-> BitAnd(r, Shl(1, 2)) # 0,
     pll |-> PLLSetting_from_register(r)]

\* FifoConfiguration::limit_size: size.clamp(1, 32)
\* the size limited from below only
limit_size_unbounded(size) == IF size < 1 THEN 1 ELSE size
limit_size(size) == IF size < 1 THEN 1 ELSE IF size > 32 THEN 32 ELSE size

as_rx_register_3(fifo) == BitOr(limit_size(fifo.rx_size) - 1, U8(Shl(fifo.pl_size, 5)))
as_tx_register_0(fifo) == IF fifo.tx_enable THEN 128 ELSE 0
as_tx_register_2(fifo) == BitOr(U8(Shl(fifo.tx_attempts, 5)), Min(fifo.tx_priority, 31))
as_tx_register_3(fifo) == BitOr(limit_size(fifo.tx_size) - 1, U8(Shl(fifo.pl_size, 5)))

\* RequestMode::to_operation_mode
to_operation_mode(m) ==
    CASE m = "NormalCANFD" -> NormalCANFD
      [] m = "InternalLoopback" -> InternalLoopback
      [] m = "ExternalLoopback" -> ExternalLoopback
      [] m = "ListenOnly" -> ListenOnly
      [] m = "NormalCAN2_0" -> NormalCAN2_0

\* every bit rate given the values of the rates without a row of their own
calculate_values_fallback(bit_rate) == << 0, 255, 63, 1 >>
\* BitRateConfig::calculate_values: [BRP, TSEG1, TSEG2, SJW]
calculate_values(bit_rate) ==
    LET p == << bit_rate.sys_clk, bit_rate.can_speed >> IN
    CASE p = << "MHz20", "Kbps1000" >> -> << 0, 13, 4, 1 >>
      [] p \in { << "MHz20", "Kpbs500" >>, << "Mhz40", "Kbps1000" >> } -> << 0, 30, 7, 1 >>
      [] p \in { << "MHz20", "Kbps250" >>, << "Mhz40", "Kpbs500" >> } -> << 0, 62, 15, 1 >>
      [] p \in { << "MHz20", "Kbps125" >>, << "Mhz40", "Kbps250" >> } -> << 0, 126, 31, 1 >>
      [] OTHER -> << 0, 255, 63, 1 >>

\* the two time segments taken in each other's place
C1NBTCFG_from_bytes_swapped(values) ==
    from_be_bytes(<< values[1], values[3], values[2], values[4] >>)
\* C1NBTCFG::from_bytes(values).into(): the four bytes are the MSB-first packed
\* register image, read as a u32 with the first byte most significant
C1NBTCFG_from_bytes(values) == from_be_bytes(values)

DefaultClock ==
    [clock_output |-> ClockOutputDivisor.DivideBy1, system_clock |-> SystemClockDivisor.DivideBy1,
     disable_clock |-> FALSE, pll |-> PLLSetting.DirectXTALOscillator]
DefaultFifo ==
    [rx_size |-> 32, tx_attempts |-> RetransmissionAttempts.Unlimited, tx_priority |-> 0,
     tx_size |-> 32, pl_size |-> PayloadSize.EightBytes, tx_enable |-> TRUE]
DefaultBitRate == [sys_clk |-> "MHz20", can_speed |-> "Kbps250"]

\* Configuration::default()
DefaultConfiguration ==
    [clock |-> DefaultClock, fifo |-> DefaultFifo, mode |-> "NormalCANFD",
     bit_rate |-> DefaultBitRate]

\* the configuration of the driver's configure test
TestConfiguration ==
    [clock |-> [clock_output |-> ClockOutputDivisor.DivideBy10,
                system_clock |-> SystemClockDivisor.DivideBy1,
                disable_clock |-> FALSE, pll |-> PLLSetting.TenTimesPLL],
     fifo |-> [rx_size |-> 16, tx_attempts |-> RetransmissionAttempts.Three,
               tx_priority |-> 10, tx_size |-> 20,
               pl_size |-> PayloadSize.EightBytes, tx_enable |-> TRUE],
     mode |-> "NormalCAN2_0",
     bit_rate |-> [sys_clk |-> "MHz20", can_speed |-> "Kpbs500"]]

\* every ClockConfiguration
ClockConfigurations ==
    [clock_output : { ClockOutputDivisor.DivideBy10, ClockOutputDivisor.DivideBy4,
                      ClockOutputDivisor.DivideBy2, ClockOutputDivisor.DivideBy1 },
     system_clock : { SystemClockDivisor.DivideBy2, SystemClockDivisor.DivideBy1 },
     disable_clock : BOOLEAN,
     pll : { PLLSetting.TenTimesPLL, PLLSetting.DirectXTALOscillator }]

\* every BitRateConfig: SysClk x CanBaudRate
BitRateConfigs ==
    [sys_clk : { "MHz20", "Mhz40" },
     can_speed : { "Kbps1000", "Kpbs500", "Kbps250", "Kbps125", "Kbps50", "Kbps10" }]

\* the FIFO configurations the encoders are applied to: every u8 for each of
\* the two sizes and the priority, every payload size and attempts code
U8s == 0..255
FifoConfigurations ==
    UNION { { [DefaultFifo EXCEPT !.rx_size = n, !.pl_size = p],
              [DefaultFifo EXCEPT !.tx_size = n, !.pl_size = p, !.tx_enable = FALSE],
              [DefaultFifo EXCEPT !.tx_priority = n, !.tx_attempts = a] } :
            n \in U8s,
            p \in { PayloadSize.EightBytes, PayloadSize.TwentyBytes, PayloadSize.SixtyFourBytes },
            a \in { RetransmissionAttempts.Disabled, RetransmissionAttempts.Three,
                    RetransmissionAttempts.Unlimited } }

\* the configurations configure is called with
Configurations == { DefaultConfiguration, TestConfiguration }

\* values the chip answers to a read of C1CON byte 2
OperationStatusBytes == { 20, 148, 192 }

\* steps by which the clock advances between two readings
ClockSteps == { 0, 1, TimeoutMs + 1 }

-----------------------------------------------------------------------------
(* message.rs *)

STANDARD_IDENTIFIER_MASK == 2047
EXTENDED_IDENTIFIER_MASK == 262143

\* the byte counts that have a data length code, in the order of the codes
DlcLengths == << 0, 1, 2, 3, 4, 5, 6, 7, 8, 12, 16, 20, 24, 32, 48, 64 >>

\* DLC::from_length: the code of the length, -1 for Err(InvalidLength)
DLC_from_length(value) ==
    IF \E c \in 1..Len(DlcLengths) : DlcLengths[c] = value
    THEN (CHOOSE c \in 1..Len(DlcLengths) : DlcLengths[c] = value) - 1
    ELSE -1

\* TxHeader::new(): all fields zero
NewTxHeader ==
    [sid11 |-> FALSE, extended_identifier |-> 0, standard_identifier |-> 0,
     sequence |-> 0, error_status_indicator |-> FALSE, fd_frame |-> FALSE,
     bit_rate_switch |-> FALSE, remote_transmission_request |-> FALSE,
     identifier_extension_flag |-> FALSE, data_length_code |-> 0]

\* every kind set up as Can20 is
setup_header_as_can20(type, header, payload_length) ==
    IF type.L > 8 \/ payload_length > 8
    THEN Err("InvalidLength", Max(payload_length, type.L))
    ELSE IF payload_length > type.L
    THEN Err("InvalidLength", payload_length)
    ELSE IF type.L % 4 # 0
    THEN Err("InvalidTypeSize", type.L)
    ELSE Ok(header)
\* Can20::setup_header and CanFd::setup_header; type |-> [kind, L, bitrate_switch]
setup_header(type, header, payload_length) ==
    LET cap == IF type.kind = "Can20" THEN 8 ELSE 64 IN
    IF type.L > cap \/ payload_length > cap
    THEN Err("InvalidLength", Max(payload_length, type.L))
    ELSE IF payload_length > type.L
    THEN Err("InvalidLength", payload_length)
    ELSE IF type.L % 4 # 0
    THEN Err("InvalidTypeSize", type.L)
    ELSE IF type.kind = "Can20"
    THEN Ok(header)
    ELSE Ok([header EXCEPT !.bit_rate_switch = type.bitrate_switch, !.fd_frame = TRUE])

\* every length above 8 taken up to 64
NextDlcLength_to_64(n) == IF n <= 8 THEN n ELSE 64
\* while let Err(InvalidLength(_)) = DLC::from_length(n) { n += 1 }
RECURSIVE NextDlcLength(_)
NextDlcLength(n) == IF DLC_from_length(n) # -1 THEN n ELSE NextDlcLength(n + 1)

\* the high bits of an extended identifier taken without the shift
SetIdentifier_unshifted(header, id) ==
    IF id.ext
    THEN [header EXCEPT
            !.extended_identifier = BitAnd(id.raw, EXTENDED_IDENTIFIER_MASK),
            !.standard_identifier = BitAnd(U16(id.raw), STANDARD_IDENTIFIER_MASK),
            !.identifier_extension_flag = TRUE]
    ELSE [header EXCEPT !.standard_identifier = id.raw]
\* the identifier match of TxMessage::new; id |-> [ext, raw]
SetIdentifier(header, id) ==
    IF id.ext
    THEN [header EXCEPT
            !.extended_identifier = BitAnd(id.raw, EXTENDED_IDENTIFIER_MASK),
            !.standard_identifier = BitAnd(U16(Shr(id.raw, 18)), STANDARD_IDENTIFIER_MASK),
            !.identifier_extension_flag = TRUE]
    ELSE [header EXCEPT !.standard_identifier = id.raw]

\* TxMessage::new(message_type, data, identifier)
TxMessageNew(type, payload, id) ==
    LET set == setup_header(type, NewTxHeader, Len(payload)) IN
    IF set.t # "Ok" THEN set
    ELSE Ok([header |-> SetIdentifier(
                           [set.v EXCEPT !.data_length_code =
                                DLC_from_length(NextDlcLength(Len(payload)))],
                           id),
             buff |-> payload,
             message_type |-> type])

\* RxHeader::get_id, on the identifier fields of a header
get_id(header) ==
    IF header.identifier_extension_flag
    THEN [ext |-> TRUE,
          raw |-> BitOr(Shl(header.standard_identifier, 18), header.extended_identifier)]
    ELSE [ext |-> FALSE, raw |-> header.standard_identifier]

\* TxHeader::into_bytes(): the fields packed MSB first, T0 then T1
HeaderWord0(h) ==
    Shl(BoolU8(h.sid11), 29) + Shl(h.extended_identifier, 11) + h.standard_identifier
HeaderWord1(h) ==
    Shl(h.sequence, 9) + Shl(BoolU8(h.error_status_indicator), 8)
    + Shl(BoolU8(h.fd_frame), 7) + Shl(BoolU8(h.bit_rate_switch), 6)
    + Shl(BoolU8(h.remote_transmission_request), 5)
    + Shl(BoolU8(h.identifier_extension_flag), 4) + h.data_length_code
to_be_bytes(v) == << Shr(v, 24) % 256, Shr(v, 16) % 256, Shr(v, 8) % 256, v % 256 >>
into_bytes(h) == to_be_bytes(HeaderWord0(h)) \o to_be_bytes(HeaderWord1(h))

-----------------------------------------------------------------------------
(* frame.rs *)

\* no frame: the value of `can_frame` while no frame has been built
NoFrame == [identifier |-> [ext |-> FALSE, raw |-> 0], rtr |-> FALSE, dlc |-> 0, data |-> << >>]

\* CanFrame::new(id, data): None for more than 8 bytes, otherwise the frame
\* with the data copied into an array of 8 zeroed bytes
CanFrameNew(id, bytes) ==
    IF Len(bytes) > 8
    THEN [some |-> FALSE, v |-> NoFrame]
    ELSE [some |-> TRUE,
          v |-> [identifier |-> id, rtr |-> FALSE, dlc |-> Len(bytes),
                 data |-> [i \in 1..8 |-> IF i <= Len(bytes) THEN bytes[i] ELSE 0]]]

-----------------------------------------------------------------------------
(* filter.rs and the filter registers of registers.rs *)

\* u32::from(FilterMaskReg): one unused bit, mide, msid11, 18 bits of meid,
\* 11 bits of msid, from the most significant bit down
FilterMaskReg_to_u32(r) ==
    Shl(BoolU8(r.mide), 30) + Shl(BoolU8(r.msid11), 29) + Shl(r.meid, 11) + r.msid
\* u32::from(FilterObjectReg): one unused bit, exide, sid11, 18 bits of eid,
\* 11 bits of sid
FilterObjectReg_to_u32(r) ==
    Shl(BoolU8(r.exide), 30) + Shl(BoolU8(r.sid11), 29) + Shl(r.eid, 11) + r.sid

\* Filter::default()
FilterDefault ==
    [index |-> 0,
     mask_bits |-> [mide |-> FALSE, msid11 |-> FALSE, meid |-> 0, msid |-> 0],
     filter_bits |-> [exide |-> FALSE, sid11 |-> FALSE, eid |-> 0, sid |-> 0]]

set_id(f, identifier) ==
    IF identifier.ext
    THEN [f EXCEPT
            !.filter_bits.eid = BitAnd(identifier.raw, EXTENDED_IDENTIFIER_MASK),
            !.filter_bits.sid = BitAnd(U16(Shr(identifier.raw, 18)), STANDARD_IDENTIFIER_MASK)]
    ELSE [f EXCEPT !.filter_bits.sid = identifier.raw]

\* the mask written into the filter object
set_mask_in_object(f, identifier) ==
    IF identifier.ext
    THEN [f EXCEPT
            !.filter_bits.eid = BitAnd(identifier.raw, EXTENDED_IDENTIFIER_MASK),
            !.filter_bits.sid = BitAnd(U16(Shr(identifier.raw, 18)), STANDARD_IDENTIFIER_MASK)]
    ELSE [f EXCEPT !.filter_bits.sid = identifier.raw]
set_mask(f, identifier) ==
    IF identifier.ext
    THEN [f EXCEPT
            !.mask_bits.meid = BitAnd(identifier.raw, EXTENDED_IDENTIFIER_MASK),
            !.mask_bits.msid = BitAnd(U16(Shr(identifier.raw, 18)), STANDARD_IDENTIFIER_MASK)]
    ELSE [f EXCEPT !.mask_bits.msid = identifier.raw]

match_standard_only(f) == [f EXCEPT !.mask_bits.mide = TRUE, !.filter_bits.exide = FALSE]
match_extended_only(f) == [f EXCEPT !.mask_bits.mide = TRUE, !.filter_bits.exide = TRUE]

\* StandardId::new(raw) and ExtendedId::new(raw) are None above 11 and 29 bits
StandardIdValid(raw) == raw <= 2047
ExtendedIdValid(raw) == raw <= 536870911

\* Filter::new(identifier, index): None for an index above 31
FilterNew(identifier, index) ==
    IF index > 31 THEN [some |-> FALSE, v |-> FilterDefault]
    ELSE [some |-> TRUE, v |-> [set_id(FilterDefault, identifier) EXCEPT !.index = index]]

-----------------------------------------------------------------------------
(* FIFO access of can.rs *)

\* FifoStatusReg0::tfnrfnif (bit 0) and FifoControlReg1::txreq (bit 1)
\* the flag read with its sense inverted
tfnrfnif_inverted(byte) == byte % 2 = 0
tfnrfnif(byte) == byte % 2 = 1
txreq(byte) == Shr(byte, 1) % 2 = 1

\* a + b on w-bit unsigned integers: a build with overflow checks panics on
\* overflow, a build without them wraps
CheckedAdd(a, b, w, checks) ==
    IF a + b < 2 ^ w THEN Ok(a + b)
    ELSE IF checks THEN Err("Panic", 0)
    ELSE Ok((a + b) % (2 ^ w))

\* user_address + 0x400 on u32, then `as u16`: the resulting u16
RamAddress(ua, checks) ==
    IF ua.hi = 65535 /\ ua.lo + 1024 >= 65536 /\ checks
    THEN Err("Panic", 0)
    ELSE Ok((ua.lo + 1024) % 65536)

verify_ram_address(addr, data_length, checks) ==
    IF addr < 1024 THEN Err("InvalidRamAddress", addr)
    ELSE LET sum == CheckedAdd(addr, U16(data_length), 16, checks) IN
         IF sum.t # "Ok" THEN sum
         ELSE IF sum.v > 3071 THEN Err("InvalidRamAddress", addr)
         ELSE Ok(0)

\* the header sent as it was packed
SwapWords_none(b) == b
\* for word in chunks_exact_mut(4): read big-endian, write little-endian
SwapWords(b) == << b[4], b[3], b[2], b[1], b[8], b[7], b[6], b[5] >>

\* the payload sent as it is
PadPayload_unpadded(buff, L) == buff
\* the payload copied into a zeroed array of L bytes
PadPayload(buff, L) == [i \in 1..L |-> IF i <= Len(buff) THEN buff[i] ELSE 0]

\* what may happen to the two-phase transaction of a FIFO access
FifoOutcomes == {"ok", "low_err", "xfer_err", "xfer2_err", "high_err"}

\* chip-select low, two transfers, chip-select high, returning at the first
\* failure; rx2: the bytes the second transfer receives
FifoTransaction(buffer, payload, rx2, out) ==
    IF out = "low_err"
    THEN [ev |-> << EvLow(FALSE) >>, res |-> CSError]
    ELSE IF out = "xfer_err"
    THEN [ev |-> << EvLow(TRUE), EvXfer(FALSE, buffer, << >>) >>, res |-> TransferError]
    ELSE IF out = "xfer2_err"
    THEN [ev |-> << EvLow(TRUE), EvXfer(TRUE, buffer, << >>), EvData(FALSE, payload, rx2) >>,
          res |-> TransferError]
    ELSE [ev |-> << EvLow(TRUE), EvXfer(TRUE, buffer, << >>), EvData(TRUE, payload, rx2),
                    EvHigh(out # "high_err") >>,
          res |-> IF out = "high_err" THEN CSError ELSE Ok(0)]

write_fifo(register, msg, out, checks) ==
    LET ver == verify_ram_address(register, Len(msg.buff), checks) IN
    IF ver.t # "Ok" THEN [ev |-> << >>, res |-> ver]
    ELSE FifoTransaction(
            << Shr(Command(register, OperationWrite), 8),
               Command(register, OperationWrite) % 256 >>
              \o SwapWords(into_bytes(msg.header)),
            PadPayload(msg.buff, msg.message_type.L),
            << >>, out)

\* the test made with its sense inverted
BufferSizeInvalid_inverted(L) == L % 4 = 0
\* L % 4 != 0
BufferSizeInvalid(L) == L % 4 # 0

\* buf: the caller's buffer of L bytes; rx: the bytes the chip answers with
read_fifo(register, buf, rx, out, checks) ==
    IF BufferSizeInvalid(Len(buf)) THEN [ev |-> << >>, res |-> Err("InvalidBufferSize", Len(buf))]
    ELSE LET payload_address == CheckedAdd(register, 8, 16, checks) IN
         IF payload_address.t # "Ok" THEN [ev |-> << >>, res |-> payload_address]
         ELSE FifoTransaction(
                 << Shr(Command(payload_address.v, OperationRead), 8),
                    Command(payload_address.v, OperationRead) % 256 >>,
                 buf, rx, out)

-----------------------------------------------------------------------------
(* Inputs of transmit and receive *)

Can20_8 == [kind |-> "Can20", L |-> 8, bitrate_switch |-> FALSE]
Can20_4 == [kind |-> "Can20", L |-> 4, bitrate_switch |-> FALSE]
CanFd_12 == [kind |-> "CanFd", L |-> 12, bitrate_switch |-> TRUE]

ExtendedTestId == [ext |-> TRUE, raw |-> 348727851]
StandardTestId == [ext |-> FALSE, raw |-> 1701]

\* the messages transmit is called with, each built by TxMessage::new
Messages ==
    { TxMessageNew(Can20_8, << 1, 2, 3, 4, 5, 6, 7, 8 >>, ExtendedTestId).v,
      TxMessageNew(Can20_8, << 1, 2, 3 >>, ExtendedTestId).v,
      TxMessageNew(Can20_4, << 1, 2, 3, 4 >>, StandardTestId).v,
      TxMessageNew(CanFd_12, << 1, 2, 3, 4, 5, 6, 7, 8, 9 >>, StandardTestId).v }

\* the kinds TxMessage::new is called with: Can20<L> and CanFd<L>, L any usize
KindLengths == { 0, 4, 6, 8, 12, 16, 28, 60, 64, 68 }
MessageTypes ==
    { [kind |-> "Can20", L |-> l, bitrate_switch |-> FALSE] : l \in KindLengths }
    \cup { [kind |-> "CanFd", L |-> l, bitrate_switch |-> b] : l \in KindLengths, b \in BOOLEAN }
\* the identifiers it is called with: extended ones of up to 29 bits (0x3FFFF,
\* 0x40000, 0x1FFFFFFF among them), standard ones of up to 11 bits
Identifiers ==
    { [ext |-> TRUE, raw |-> r] : r \in { 0, 1, 262143, 262144, 536870911 } }
    \cup { [ext |-> FALSE, raw |-> r] : r \in { 0, 2047 } }
    \cup { ExtendedTestId, StandardTestId }
\* a payload of n bytes
Payload(n) == [i \in 1..n |-> i]

\* the arguments enable_filter and disable_filter are called with: any u8 is
\* taken
FifoIndexes == { 1, 2, 31, 200 }
FilterIndexes == { 0, 6, 31, 40 }

\* the filters set_filter_object is called with: Filter::new of an identifier
\* and an index, then optionally a mask and a match restriction
FilterIds == { StandardTestId, ExtendedTestId }
FilterMasks ==
    { [ext |-> FALSE, raw |-> 3], [ext |-> TRUE, raw |-> 402653184] }
Filters ==
    LET made == { FilterNew(id, i).v : id \in FilterIds, i \in { 0, 1, 31 } }
        masked == made \cup { set_mask(f, m) : f \in made, m \in FilterMasks }
    IN masked \cup { match_standard_only(f) : f \in masked }
              \cup { match_extended_only(f) : f \in masked }

\* the indexes Filter::new is called with, and the masks the set_mask_*
\* methods are called with: 0x003, 0x7FF, 0x800; 0x18000000, 0x1FFFFFFF,
\* 0x20000000
NewFilterIndexes == { 0, 1, 31, 32, 255 }
StandardMasks == { 3, 2047, 2048 }
ExtendedMasks == { 402653184, 536870911, 536870912 }

\* values the chip answers to a read of a FIFO status byte 0
FifoStatusBytes == { 0, 1 }
\* values the chip answers to a read of a FIFO control byte 1
FifoControlBytes == { 0, 2 }

\* values the chip answers to a read of a user-address register, as the four
\* register bytes: 0x000004A2, 0x00000000, 0x000007F8, 0x00010100, 0x0000FBFC,
\* 0xFFFFFFFF
UserAddressBytes ==
    { << 162, 4, 0, 0 >>, << 0, 0, 0, 0 >>, << 248, 7, 0, 0 >>, << 0, 1, 1, 0 >>,
      << 252, 251, 0, 0 >>, << 255, 255, 255, 255 >> }

\* the buffers receive is called with
ReceiveBuffers == { << 0, 0, 0, 0, 0, 0, 0, 0 >>, << 0, 0, 0 >> }

\* the bytes the chip answers to a RAM read of n bytes
RamBytes(n) == [i \in 1..n |-> i]

-----------------------------------------------------------------------------
(* The state after construction: no call made yet *)

NoMessage ==
    [header |-> NewTxHeader, buff |-> << >>,
     message_type |-> [kind |-> "Can20", L |-> 0, bitrate_switch |-> FALSE]]

Init ==
    /\ op = "none"
    /\ pc = "idle"
    /\ trace = << >>
    /\ result = NoResult
    /\ config = DefaultConfiguration
    /\ now = 0
    /\ mode = Configuration
    /\ timeout_error = "ConfigurationModeTimeout"
    /\ target = 0
    /\ current_mode = -1
    /\ polls = 0
    /\ message = NoMessage
    /\ blocking = TRUE
    /\ user_address = U32FromLeBytes(<< 0, 0, 0, 0 >>)
    /\ data = << >>
    /\ fifo_index = FIFO_RX_INDEX
    /\ filter_index = 0
    /\ filter = FilterDefault
    /\ new_type = NoMessage.message_type
    /\ new_data = << >>
    /\ new_id = [ext |-> FALSE, raw |-> 0]
    /\ register_byte = 0
    /\ decoded = DefaultClock
    /\ image = << >>
    /\ can_frame = NoFrame
    /\ calls = 0

\* the handle is free for a public call
CanCall == pc = "idle"

\* a fresh call: nothing issued yet, the clock at its origin
Fresh ==
    UNCHANGED <<trace, result, now, emVars, polls, user_address, fifo_index, filter_index,
                filter, newVars, encVars, frameVars>>

\* the result is with the caller: the locals of the call are gone and the
\* handle, which keeps no state of its own, is free for the next call
CallReturns ==
    /\ pc = "done"
    /\ pc' = "idle"
    /\ op' = "none"
    /\ trace' = << >>
    /\ result' = NoResult
    /\ config' = DefaultConfiguration
    /\ now' = 0
    /\ mode' = Configuration
    /\ timeout_error' = "ConfigurationModeTimeout"
    /\ target' = 0
    /\ current_mode' = -1
    /\ polls' = 0
    /\ message' = NoMessage
    /\ blocking' = TRUE
    /\ user_address' = U32FromLeBytes(<< 0, 0, 0, 0 >>)
    /\ data' = << >>
    /\ fifo_index' = FIFO_RX_INDEX
    /\ filter_index' = 0
    /\ filter' = FilterDefault
    /\ new_type' = NoMessage.message_type
    /\ new_data' = << >>
    /\ new_id' = [ext |-> FALSE, raw |-> 0]
    /\ register_byte' = 0
    /\ decoded' = DefaultClock
    /\ image' = << >>
    /\ can_frame' = NoFrame
    /\ calls' = 0

\* the call returns r
Return(r) == pc' = "done" /\ result' = r

\* a bus transaction r was issued: go on at `next` when it succeeded, return
\* its error otherwise
Step(r, next) ==
    /\ trace' = trace \o r.ev
    /\ IF r.res.t = "Ok" THEN pc' = next /\ result' = result
                         ELSE Return(r.res)

-----------------------------------------------------------------------------
(* enable_mode *)

\* entry of enable_mode(mode, clock, timeout_error)
EnterEnableMode(m, e) ==
    /\ mode' = m
    /\ timeout_error' = e
    /\ current_mode' = -1
    /\ target' = 0

\* write_register(REGISTER_C1CON + 3, mode as u8 | (1 << 3))
EnableModeRequest ==
    /\ pc = "em_request"
    /\ \E out \in TransferOutcomes :
         Step(write_register(REGISTER_C1CON + 3, BitOr(mode, Shl(1, 3)), out), "em_start")
    /\ UNCHANGED <<op, now, emVars, polls, argVars, user_address, data>>

\* the addition taken to succeed for every instant
DeadlineUnrepresentable_never(t) == FALSE
\* checked_add(Milliseconds::new(2)) gives None: the instant 2 ms after t is
\* past the largest instant of the clock
DeadlineUnrepresentable(t) == t + TimeoutMs > ClockMax

\* clock.try_now()?.checked_add(Milliseconds::new(2)).ok_or(ClockError)?
EnableModeStart ==
    /\ pc = "em_start"
    /\ \/ /\ trace' = Append(trace, EvNow(FALSE, 0))
          /\ Return(Err("ClockError", 0))
          /\ UNCHANGED <<now, target>>
       \/ \E d \in ClockSteps :
            /\ now + d <= ClockMax
            /\ now' = now + d
            /\ trace' = Append(trace, EvNow(TRUE, now + d))
            /\ IF DeadlineUnrepresentable(now + d)
               THEN Return(Err("ClockError", 0)) /\ UNCHANGED target
               ELSE target' = now + d + TimeoutMs /\ pc' = "em_poll" /\ UNCHANGED result
    /\ UNCHANGED <<op, mode, timeout_error, current_mode, polls, argVars, user_address, data>>

\* current_mode = Some(self.read_operation_status()?.mode)
EnableModePoll ==
    /\ pc = "em_poll"
    /\ \E out \in TransferOutcomes, b \in OperationStatusBytes :
         /\ polls < MaxPolls \/ OperationModeFromRegister(b) = mode
         /\ Step(read_register(REGISTER_C1CON + 2, b, out), "em_check")
         /\ current_mode' = IF out = "ok" THEN OperationModeFromRegister(b) ELSE current_mode
    /\ UNCHANGED <<op, now, mode, timeout_error, target, polls, argVars, user_address, data>>

\* where enable_mode returns Ok to
AfterEnableMode ==
    IF timeout_error = "ConfigurationModeTimeout"
    THEN pc' = "cfg_osc" /\ UNCHANGED result
    ELSE Return(Ok(0))

\* the loop left as soon as one status was read, whatever its mode
StillWaiting_until_first_read(current, m) == current = -1
\* while current_mode.is_none() || current_mode.unwrap() != mode
StillWaiting(current, m) == current = -1 \/ current # m

\* the deadline itself counted as late
TimedOut_at_deadline(t, deadline) == t >= deadline
\* no reading counted as late
TimedOut_never(t, deadline) == FALSE
\* clock.try_now()? > target
TimedOut(t, deadline) == t > deadline

\* if clock.try_now()? > target { return Err(timeout_error) }, then the test
\* of the while loop
EnableModeCheck ==
    /\ pc = "em_check"
    /\ \/ /\ trace' = Append(trace, EvNow(FALSE, 0))
          /\ Return(Err("ClockError", 0))
          /\ UNCHANGED <<now, polls>>
       \/ \E d \in ClockSteps :
            /\ now + d <= ClockMax
            /\ now' = now + d
            /\ trace' = Append(trace, EvNow(TRUE, now + d))
            /\ IF TimedOut(now + d, target)
               THEN Return(Err(timeout_error, 0)) /\ UNCHANGED polls
               ELSE IF StillWaiting(current_mode, mode)
               THEN pc' = "em_poll" /\ polls' = polls + 1 /\ UNCHANGED result
               ELSE AfterEnableMode /\ UNCHANGED polls
    /\ UNCHANGED <<op, emVars, argVars, user_address, data>>

-----------------------------------------------------------------------------
(* configure *)

Configure ==
    /\ CanCall
    /\ op' = "configure"
    /\ pc' = "em_request"
    /\ Fresh
    /\ \E c \in Configurations : config' = c
    /\ UNCHANGED <<message, blocking, data>>

ConfigureOsc ==
    /\ pc = "cfg_osc"
    /\ \E out \in TransferOutcomes :
         Step(write_register(REGISTER_OSC, as_register(config.clock), out), "cfg_nbt")
    /\ UNCHANGED <<op, now, emVars, polls, argVars, user_address, data>>

ConfigureBitTime ==
    /\ pc = "cfg_nbt"
    /\ \E out \in DirectOutcomes :
         Step(write32(REGISTER_C1NBTCFG,
                      C1NBTCFG_from_bytes(calculate_values(config.bit_rate)), out),
              "cfg_rx3")
    /\ UNCHANGED <<op, now, emVars, polls, argVars, user_address, data>>

ConfigureRxFifo ==
    /\ pc = "cfg_rx3"
    /\ \E out \in TransferOutcomes :
         Step(write_register(fifo_control_register(FIFO_RX_INDEX) + 3,
                             as_rx_register_3(config.fifo), out), "cfg_tx2")
    /\ UNCHANGED <<op, now, emVars, polls, argVars, user_address, data>>

ConfigureTxFifo2 ==
    /\ pc = "cfg_tx2"
    /\ \E out \in TransferOutcomes :
         Step(write_register(fifo_control_register(FIFO_TX_INDEX) + 2,
                             as_tx_register_2(config.fifo), out), "cfg_tx3")
    /\ UNCHANGED <<op, now, emVars, polls, argVars, user_address, data>>

ConfigureTxFifo3 ==
    /\ pc = "cfg_tx3"
    /\ \E out \in TransferOutcomes :
         Step(write_register(fifo_control_register(FIFO_TX_INDEX) + 3,
                             as_tx_register_3(config.fifo), out), "cfg_tx0")
    /\ UNCHANGED <<op, now, emVars, polls, argVars, user_address, data>>

\* the last FIFO write, then the call of enable_filter(FIFO_RX_INDEX, 0)
ConfigureTxFifo0 ==
    /\ pc = "cfg_tx0"
    /\ \E out \in TransferOutcomes :
         Step(write_register(fifo_control_register(FIFO_TX_INDEX),
                             as_tx_register_0(config.fifo), out), "ef_disable")
    /\ fifo_index' = FIFO_RX_INDEX
    /\ filter_index' = 0
    /\ UNCHANGED <<op, now, emVars, polls, config, message, blocking, user_address, data,
                   filter, newVars, encVars, frameVars>>

-----------------------------------------------------------------------------
(* enable_filter, disable_filter *)

\* enable_filter(fifo_index, filter_index) called on its own
EnableFilter ==
    /\ CanCall
    /\ op' = "enable_filter"
    /\ pc' = "ef_disable"
    /\ \E i \in FifoIndexes : fifo_index' = i
    /\ \E i \in FilterIndexes : filter_index' = i
    /\ UNCHANGED <<trace, result, now, emVars, polls, user_address, config, message,
                   blocking, data, filter, newVars, encVars, frameVars>>

\* disable_filter(filter_index) called on its own
DisableFilter ==
    /\ CanCall
    /\ op' = "disable_filter"
    /\ pc' = "ef_disable"
    /\ \E i \in FilterIndexes : filter_index' = i
    /\ UNCHANGED <<trace, result, now, emVars, polls, user_address, config, message,
                   blocking, data, fifo_index, filter, newVars, encVars, frameVars>>

\* self.disable_filter(filter_index)?
EnableFilterDisable ==
    /\ pc = "ef_disable"
    /\ \E out \in TransferOutcomes :
         LET r == write_register(filter_control_register_byte(filter_index), 0, out) IN
         IF op = "disable_filter"
         THEN trace' = trace \o r.ev /\ Return(r.res)
         ELSE Step(r, "ef_route")
    /\ UNCHANGED <<op, now, emVars, polls, argVars, user_address, data>>

\* self.write_register(filter_control_reg, fifo_index)?
EnableFilterRoute ==
    /\ pc = "ef_route"
    /\ \E out \in TransferOutcomes :
         Step(write_register(filter_control_register_byte(filter_index), fifo_index, out),
              "ef_enable")
    /\ UNCHANGED <<op, now, emVars, polls, argVars, user_address, data>>

\* self.write_register(filter_control_reg, (1 << 7) | fifo_index)?, then back
\* in configure the call of enable_mode(config.mode, RequestModeTimeout)
EnableFilterEnable ==
    /\ pc = "ef_enable"
    /\ \E out \in TransferOutcomes :
         LET r == write_register(filter_control_register_byte(filter_index),
                                 BitOr(Shl(1, 7), fifo_index), out) IN
         IF op = "configure"
         THEN /\ Step(r, "em_request")
              /\ EnterEnableMode(to_operation_mode(config.mode), "RequestModeTimeout")
         ELSE /\ trace' = trace \o r.ev
              /\ Return(r.res)
              /\ UNCHANGED emVars
    /\ UNCHANGED <<op, now, polls, argVars, user_address, data>>

-----------------------------------------------------------------------------
(* set_filter_object *)

SetFilterObject ==
    /\ CanCall
    /\ op' = "set_filter_object"
    /\ pc' = "sf_disable"
    /\ \E f \in Filters : filter' = f
    /\ UNCHANGED <<trace, result, now, emVars, polls, user_address, config, message,
                   blocking, data, fifo_index, filter_index, newVars, encVars, frameVars>>

\* self.disable_filter(filter.index)?
SetFilterObjectDisable ==
    /\ pc = "sf_disable"
    /\ \E out \in TransferOutcomes :
         Step(write_register(filter_control_register_byte(filter.index), 0, out), "sf_object")
    /\ UNCHANGED <<op, now, emVars, polls, argVars, user_address, data>>

\* self.write32(filter_object_reg, u32::from(filter.filter_bits))?
SetFilterObjectValue ==
    /\ pc = "sf_object"
    /\ \E out \in DirectOutcomes :
         Step(write32(filter_object_register(filter.index),
                      FilterObjectReg_to_u32(filter.filter_bits), out), "sf_mask")
    /\ UNCHANGED <<op, now, emVars, polls, argVars, user_address, data>>

\* self.write32(filter_mask_reg, u32::from(filter.mask_bits))?
SetFilterObjectMask ==
    /\ pc = "sf_mask"
    /\ \E out \in DirectOutcomes :
         Step(write32(filter_mask_register(filter.index),
                      FilterMaskReg_to_u32(filter.mask_bits), out), "sf_enable")
    /\ UNCHANGED <<op, now, emVars, polls, argVars, user_address, data>>

\* self.write_register(filter_control_reg, (1 << 7) | 1)?
SetFilterObjectEnable ==
    /\ pc = "sf_enable"
    /\ \E out \in TransferOutcomes :
         LET r == write_register(filter_control_register_byte(filter.index),
                                 BitOr(Shl(1, 7), 1), out) IN
         /\ trace' = trace \o r.ev
         /\ Return(r.res)
    /\ UNCHANGED <<op, now, emVars, polls, argVars, user_address, data>>

-----------------------------------------------------------------------------
(* ClockConfiguration: a configuration encoded to the register byte, the byte
   decoded again *)

\* config.clock.as_register()
ClockAsRegister ==
    /\ CanCall
    /\ op' = "ClockConfiguration"
    /\ pc' = "clock_from_register"
    /\ \E c \in ClockConfigurations :
         /\ config' = [DefaultConfiguration EXCEPT !.clock = c]
         /\ register_byte' = as_register(c)
    /\ UNCHANGED <<trace, result, now, emVars, polls, user_address, message, blocking, data,
                   fifo_index, filter_index, filter, newVars, decoded, image, frameVars>>

\* ClockConfiguration::from_register(register)
ClockFromRegister ==
    /\ pc = "clock_from_register"
    /\ decoded' = from_register(register_byte)
    /\ Return(Ok(0))
    /\ UNCHANGED <<op, trace, now, emVars, polls, user_address, config, message, blocking,
                   data, fifo_index, filter_index, filter, newVars, register_byte, image, frameVars>>

-----------------------------------------------------------------------------
(* BitRateConfig and C1NBTCFG: the bit-time values of a bit rate, then the
   register value configure passes to write32, as the bytes write32 sends *)

\* config.bit_rate.calculate_values()
BitRateCalculateValues ==
    /\ CanCall
    /\ op' = "BitRateConfig"
    /\ pc' = "nbt_from_bytes"
    /\ \E b \in BitRateConfigs :
         /\ config' = [DefaultConfiguration EXCEPT !.bit_rate = b]
         /\ image' = calculate_values(b)
    /\ UNCHANGED <<trace, result, now, emVars, polls, user_address, message, blocking, data,
                   fifo_index, filter_index, filter, newVars, register_byte, decoded, frameVars>>

\* C1NBTCFG::from_bytes(nbr_values).into(), sent as write32 sends a u32
NbtFromBytes ==
    /\ pc = "nbt_from_bytes"
    /\ image' = to_le_bytes(C1NBTCFG_from_bytes(image))
    /\ Return(Ok(0))
    /\ UNCHANGED <<op, trace, now, emVars, polls, user_address, config, message, blocking,
                   data, fifo_index, filter_index, filter, newVars, register_byte, decoded, frameVars>>

-----------------------------------------------------------------------------
(* FifoConfiguration: the register bytes of a FIFO configuration *)

\* as_rx_register_3, as_tx_register_0, as_tx_register_2 and as_tx_register_3
\* touch no bus: the call is one step, the bytes are left in `image`
FifoAsRegisters ==
    /\ CanCall
    /\ op' = "FifoConfiguration"
    /\ \E f \in FifoConfigurations :
         /\ config' = [DefaultConfiguration EXCEPT !.fifo = f]
         /\ image' = << as_rx_register_3(f), as_tx_register_0(f),
                        as_tx_register_2(f), as_tx_register_3(f) >>
    /\ Return(Ok(0))
    /\ UNCHANGED <<trace, now, emVars, polls, user_address, message, blocking, data,
                   fifo_index, filter_index, filter, newVars, register_byte, decoded, frameVars>>

-----------------------------------------------------------------------------
(* CanFrame: the constructor and the id() accessor called on the frame it
   returned *)

\* the data lengths CanFrame::new is called with
FrameLengths == { 0, 3, 8, 9 }

CanFrameNewCall ==
    /\ CanCall
    /\ op' = "CanFrame::new"
    /\ \E id \in FilterIds, n \in FrameLengths :
         LET r == CanFrameNew(id, Payload(n)) IN
         /\ new_id' = id
         /\ new_data' = Payload(n)
         /\ can_frame' = r.v
         /\ Return(IF r.some THEN Ok(0) ELSE Err("Option::None", 0))
    /\ UNCHANGED <<trace, now, emVars, polls, user_address, config, message, blocking, data,
                   fifo_index, filter_index, filter, new_type, encVars, calls>>

\* frame.id() called on the frame CanFrame::new returned
CanFrameIdCall ==
    /\ op = "CanFrame::new" /\ pc = "done" /\ result.t = "Ok"
    /\ op' = "CanFrame::id"
    /\ pc' = "frame_id"
    /\ result' = NoResult
    /\ calls' = 1
    /\ UNCHANGED <<trace, now, emVars, polls, user_address, config, message, blocking, data,
                   fifo_index, filter_index, filter, newVars, encVars, can_frame>>

\* fn id(&self) -> Id { self.id() }: the body is a call of id() itself, whose
\* value the caller would return; each call makes the next one until the
\* stack is used up and the program is stopped (a build that turns the call
\* into a jump goes round for ever instead)
CanFrameId ==
    /\ pc = "frame_id"
    /\ \/ calls < MaxCalls /\ calls' = calls + 1 /\ UNCHANGED <<pc, result>>
       \/ calls' = calls /\ Return(Err("StackOverflow", 0))
    /\ UNCHANGED <<op, trace, now, emVars, polls, user_address, config, message, blocking,
                   data, fifo_index, filter_index, filter, newVars, encVars, can_frame>>

-----------------------------------------------------------------------------
(* Filter: the constructor and the methods called on the filter it returned *)

FilterNewCall ==
    /\ CanCall
    /\ op' = "Filter::new"
    /\ \E id \in FilterIds, index \in NewFilterIndexes :
         LET r == FilterNew(id, index) IN
         /\ new_id' = id
         /\ filter_index' = index
         /\ filter' = r.v
         /\ Return(IF r.some THEN Ok(0) ELSE Err("Option::None", 0))
    /\ UNCHANGED <<trace, now, emVars, polls, user_address, config, message, blocking, data,
                   fifo_index, new_type, new_data, encVars, frameVars>>

\* the caller holds a filter
HoldsFilter == op \in { "Filter::new", "Filter" } /\ pc = "done" /\ result.t = "Ok"

\* a method of the filter returned: its effect on the filter, or the panic of
\* an unwrap
FilterMethod(ok, f) ==
    /\ op' = "Filter"
    /\ filter' = IF ok THEN f ELSE filter
    /\ result' = IF ok THEN Ok(0) ELSE Err("Panic", 0)
    /\ UNCHANGED <<pc, trace, now, emVars, polls, user_address, config, message, blocking,
                   data, fifo_index, filter_index, newVars, encVars, frameVars>>

FilterSetMaskStandardId ==
    /\ HoldsFilter
    /\ \E mask \in StandardMasks :
         FilterMethod(StandardIdValid(mask), set_mask(filter, [ext |-> FALSE, raw |-> mask]))

FilterSetMaskExtendedId ==
    /\ HoldsFilter
    /\ \E mask \in ExtendedMasks :
         FilterMethod(ExtendedIdValid(mask), set_mask(filter, [ext |-> TRUE, raw |-> mask]))

FilterMatchStandardOnly ==
    /\ HoldsFilter
    /\ FilterMethod(TRUE, match_standard_only(filter))

FilterMatchExtendedOnly ==
    /\ HoldsFilter
    /\ FilterMethod(TRUE, match_extended_only(filter))

-----------------------------------------------------------------------------
(* TxMessage::new *)

\* the constructor touches no bus: the call is one step, the message built is
\* left in `message`
TxMessageNewCall ==
    /\ CanCall
    /\ op' = "TxMessage::new"
    /\ \E type \in MessageTypes, n \in 0..MaxPayload, id \in Identifiers :
         LET r == TxMessageNew(type, Payload(n), id) IN
         /\ new_type' = type
         /\ new_data' = Payload(n)
         /\ new_id' = id
         /\ message' = IF r.t = "Ok" THEN r.v ELSE NoMessage
         /\ Return(IF r.t = "Ok" THEN Ok(0) ELSE r)
    /\ UNCHANGED <<trace, now, emVars, polls, user_address, config, blocking, data,
                   fifo_index, filter_index, filter, encVars, frameVars>>

-----------------------------------------------------------------------------
(* transmit *)

\* blocking is the argument the callers of src/src/lib.rs and
\* src/src/tests/can.rs pass; transmit and receive of src/src/can.rs have no
\* such parameter and never consult it
Transmit ==
    /\ CanCall
    /\ op' = "transmit"
    /\ pc' = "tx_status"
    /\ Fresh
    /\ \E m \in Messages : message' = m
    /\ \E b \in BOOLEAN : blocking' = b
    /\ UNCHANGED <<config, data>>

\* the read of TX FIFO status byte 0, and the while loop repeating it
TransmitStatus ==
    /\ pc = "tx_status"
    /\ \E out \in TransferOutcomes, b \in FifoStatusBytes :
         /\ polls < MaxPolls \/ tfnrfnif(b)
         /\ Step(read_register(fifo_status_register(FIFO_TX_INDEX), b, out),
                 IF tfnrfnif(b) THEN "tx_mode" ELSE "tx_status")
         /\ polls' = IF out = "ok" /\ ~tfnrfnif(b) THEN polls + 1 ELSE polls
    /\ UNCHANGED <<op, now, emVars, argVars, user_address, data>>

\* a payload of eight bytes taken for a CAN FD one
PayloadTooLong_from_8(len, m) == len >= 8 /\ m # NormalCANFD
\* message.buff.len() > 8 && operation_status.mode != OperationMode::NormalCANFD
PayloadTooLong(len, m) == len > 8 /\ m # NormalCANFD

\* read_operation_status and the payload length check
TransmitMode ==
    /\ pc = "tx_mode"
    /\ \E out \in TransferOutcomes, b \in OperationStatusBytes :
         LET r == read_register(REGISTER_C1CON + 2, b, out) IN
         /\ trace' = trace \o r.ev
         /\ IF r.res.t # "Ok" THEN Return(r.res)
            ELSE IF PayloadTooLong(Len(message.buff), OperationModeFromRegister(r.res.v))
            THEN Return(Err("InvalidPayloadLength", Len(message.buff)))
            ELSE pc' = "tx_user_address" /\ UNCHANGED result
    /\ UNCHANGED <<op, now, emVars, polls, argVars, user_address, data>>

\* read32(fifo_user_address_register(FIFO_TX_INDEX))
TransmitUserAddress ==
    /\ pc = "tx_user_address"
    /\ \E out \in DirectOutcomes, b \in UserAddressBytes :
         /\ Step(read32(fifo_user_address_register(FIFO_TX_INDEX), b, out), "tx_write_fifo")
         /\ user_address' = IF out = "ok" THEN U32FromLeBytes(b) ELSE user_address
    /\ UNCHANGED <<op, now, emVars, polls, argVars, data>>

\* address = user_address + 0x400; write_fifo(address as u16, message)
TransmitWriteFifo ==
    /\ pc = "tx_write_fifo"
    /\ \E out \in FifoOutcomes, checks \in BOOLEAN :
         LET address == RamAddress(user_address, checks) IN
         IF address.t # "Ok"
         THEN Return(address) /\ UNCHANGED trace
         ELSE Step(write_fifo(address.v, message, out, checks), "tx_request")
    /\ UNCHANGED <<op, now, emVars, polls, argVars, user_address, data>>

\* write_register(fifo_control_reg1, 0x03)
TransmitRequest ==
    /\ pc = "tx_request"
    /\ \E out \in TransferOutcomes :
         Step(write_register(fifo_control_register(FIFO_TX_INDEX) + 1, 3, out), "tx_txreq")
    /\ UNCHANGED <<op, now, emVars, polls, argVars, user_address, data>>

\* the read of TX FIFO control byte 1, and the while loop repeating it
TransmitTxreq ==
    /\ pc = "tx_txreq"
    /\ \E out \in TransferOutcomes, b \in FifoControlBytes :
         LET r == read_register(fifo_control_register(FIFO_TX_INDEX) + 1, b, out) IN
         /\ polls < MaxPolls \/ ~txreq(b)
         /\ trace' = trace \o r.ev
         /\ IF r.res.t # "Ok" THEN Return(r.res) /\ UNCHANGED polls
            ELSE IF txreq(r.res.v)
            THEN polls' = polls + 1 /\ UNCHANGED <<pc, result>>
            ELSE Return(Ok(0)) /\ UNCHANGED polls
    /\ UNCHANGED <<op, now, emVars, argVars, user_address, data>>

-----------------------------------------------------------------------------
(* receive *)

Receive ==
    /\ CanCall
    /\ op' = "receive"
    /\ pc' = "rx_status"
    /\ Fresh
    /\ \E d \in ReceiveBuffers : data' = d
    /\ \E b \in BOOLEAN : blocking' = b
    /\ UNCHANGED <<config, message>>

\* the read of RX FIFO status byte 0, and the while loop repeating it
ReceiveStatus ==
    /\ pc = "rx_status"
    /\ \E out \in TransferOutcomes, b \in FifoStatusBytes :
         /\ polls < MaxPolls \/ tfnrfnif(b)
         /\ Step(read_register(fifo_status_register(FIFO_RX_INDEX), b, out),
                 IF tfnrfnif(b) THEN "rx_user_address" ELSE "rx_status")
         /\ polls' = IF out = "ok" /\ ~tfnrfnif(b) THEN polls + 1 ELSE polls
    /\ UNCHANGED <<op, now, emVars, argVars, user_address, data>>

\* read32(fifo_user_address_register(FIFO_RX_INDEX))
ReceiveUserAddress ==
    /\ pc = "rx_user_address"
    /\ \E out \in DirectOutcomes, b \in UserAddressBytes :
         /\ Step(read32(fifo_user_address_register(FIFO_RX_INDEX), b, out), "rx_read_fifo")
         /\ user_address' = IF out = "ok" THEN U32FromLeBytes(b) ELSE user_address
    /\ UNCHANGED <<op, now, emVars, polls, argVars, data>>

\* address = 0x400 + user_address; read_fifo(address as u16, data)
ReceiveReadFifo ==
    /\ pc = "rx_read_fifo"
    /\ \E out \in FifoOutcomes, checks \in BOOLEAN :
         LET address == RamAddress(user_address, checks) IN
         IF address.t # "Ok"
         THEN Return(address) /\ UNCHANGED <<trace, data>>
         ELSE LET r == read_fifo(address.v, data, RamBytes(Len(data)), out, checks) IN
              /\ Step(r, "rx_uinc")
              /\ data' = IF r.res.t = "Ok" \/ (r.ev # << >> /\ out = "high_err")
                         THEN RamBytes(Len(data)) ELSE data
    /\ UNCHANGED <<op, now, emVars, polls, argVars, user_address>>

\* write_register(fifo_control_register(FIFO_RX_INDEX) + 1, 1)
ReceiveUinc ==
    /\ pc = "rx_uinc"
    /\ \E out \in TransferOutcomes :
         LET r == write_register(fifo_control_register(FIFO_RX_INDEX) + 1, 1, out) IN
         /\ trace' = trace \o r.ev
         /\ Return(r.res)
    /\ UNCHANGED <<op, now, emVars, polls, argVars, user_address, data>>

-----------------------------------------------------------------------------
(* Reading the trace: the bus transactions of the call *)

\* a chip-select cycle as one record: cmd and rx are the bytes sent and
\* received by its first transfer, data and drx those of its second one, at
\* the place of its first event in the trace; ok when every step succeeded
TxnAt(i) ==
    LET has(j, e) == j <= Len(trace) /\ trace[j].e = e
        x == has(i + 1, "xfer")
        d == x /\ has(i + 2, "data")
        hi == IF d THEN i + 3 ELSE i + 2
        sent == x /\ trace[i + 1].ok /\ (d => trace[i + 2].ok)
    IN [at |-> i,
        cmd |-> IF x THEN trace[i + 1].tx ELSE << >>,
        rx |-> IF x THEN trace[i + 1].rx ELSE << >>,
        data |-> IF d THEN trace[i + 2].tx ELSE << >>,
        drx |-> IF d THEN trace[i + 2].rx ELSE << >>,
        sent |-> sent,
        ok |-> sent /\ has(hi, "high") /\ trace[hi].ok]

Txns ==
    LET lows == SelectSeq([i \in 1..Len(trace) |-> i], LAMBDA i : trace[i].e = "low")
    IN [k \in 1..Len(lows) |-> TxnAt(lows[k])]

\* the transactions of the call so far, those with a failed chip-select
\* assert (and so no transfer) left out
Bus == SelectSeq(Txns, LAMBDA x : x.cmd # << >>)

TxnOpcode(x) == x.cmd[1] \div 16
TxnAddress(x) == (x.cmd[1] % 16) * 256 + x.cmd[2]
IsWrite(x) == TxnOpcode(x) = 2
IsRead(x) == TxnOpcode(x) = 3
\* a write of n data bytes to address a, a read of n bytes of address a
IsWriteOf(x, a, n) == IsWrite(x) /\ TxnAddress(x) = a /\ Len(x.cmd) = n + 2 /\ x.data = << >>
IsReadOf(x, a, n) == IsRead(x) /\ TxnAddress(x) = a /\ Len(x.cmd) = n + 2 /\ x.data = << >>
\* the byte a single-byte read returned
ReadByte(x) == x.rx[3]

Writes == SelectSeq(Bus, IsWrite)

Done(o) == op = o /\ pc = "done"

-----------------------------------------------------------------------------

Next ==
    \/ Configure
    \/ EnableModeRequest
    \/ EnableModeStart
    \/ EnableModePoll
    \/ EnableModeCheck
    \/ ConfigureOsc
    \/ ConfigureBitTime
    \/ ConfigureRxFifo
    \/ ConfigureTxFifo2
    \/ ConfigureTxFifo3
    \/ ConfigureTxFifo0
    \/ EnableFilter
    \/ DisableFilter
    \/ EnableFilterDisable
    \/ EnableFilterRoute
    \/ EnableFilterEnable
    \/ SetFilterObject
    \/ SetFilterObjectDisable
    \/ SetFilterObjectValue
    \/ SetFilterObjectMask
    \/ SetFilterObjectEnable
    \/ ClockAsRegister
    \/ ClockFromRegister
    \/ BitRateCalculateValues
    \/ NbtFromBytes
    \/ FifoAsRegisters
    \/ CanFrameNewCall
    \/ CanFrameIdCall
    \/ CanFrameId
    \/ FilterNewCall
    \/ FilterSetMaskStandardId
    \/ FilterSetMaskExtendedId
    \/ FilterMatchStandardOnly
    \/ FilterMatchExtendedOnly
    \/ TxMessageNewCall
    \/ Transmit
    \/ TransmitStatus
    \/ TransmitMode
    \/ TransmitUserAddress
    \/ TransmitWriteFifo
    \/ TransmitRequest
    \/ TransmitTxreq
    \/ Receive
    \/ ReceiveStatus
    \/ ReceiveUserAddress
    \/ ReceiveReadFifo
    \/ ReceiveUinc
    \/ CallReturns

Spec == Init /\ [][Next]_vars

-----------------------------------------------------------------------------
(* configure with its polls unbounded *)

\* trace and polls record what a call did and hold no state of the driver:
\* here each step starts from an empty record, and the record of the step
\* before is put aside, so that a call may poll as often as the code lets it
NoHistory == trace = << >> /\ polls = 0

ForgetHistory ==
    /\ ~NoHistory
    /\ pc # "done"
    /\ trace' = << >>
    /\ polls' = 0
    /\ UNCHANGED <<op, pc, result, now, emVars, argVars, user_address, data>>

\* a reading after a status poll later than the reading before it
ClockAdvances == EnableModeCheck /\ now' > now

LiveNext ==
    \/ NoHistory /\ Configure
    \/ NoHistory /\ EnableModeRequest
    \/ NoHistory /\ EnableModeStart
    \/ NoHistory /\ EnableModePoll
    \/ NoHistory /\ EnableModeCheck
    \/ NoHistory /\ ConfigureOsc
    \/ NoHistory /\ ConfigureBitTime
    \/ NoHistory /\ ConfigureRxFifo
    \/ NoHistory /\ ConfigureTxFifo2
    \/ NoHistory /\ ConfigureTxFifo3
    \/ NoHistory /\ ConfigureTxFifo0
    \/ NoHistory /\ EnableFilterDisable
    \/ NoHistory /\ EnableFilterRoute
    \/ NoHistory /\ EnableFilterEnable
    \/ ForgetHistory
    \/ CallReturns

\* every bus transaction and every clock reading returns; the clock does not
\* stand still for ever: of the readings taken after status polls, one after
\* another is later than the reading before it
LiveSpec ==
    /\ Init
    /\ [][LiveNext]_vars
    /\ WF_vars(ForgetHistory)
    /\ WF_vars(NoHistory /\ EnableModeRequest)
    /\ WF_vars(NoHistory /\ EnableModeStart)
    /\ WF_vars(NoHistory /\ EnableModePoll)
    /\ WF_vars(NoHistory /\ EnableModeCheck)
    /\ SF_vars(NoHistory /\ ClockAdvances)

-----------------------------------------------------------------------------
(* The properties of the driver *)

\* the register addresses configure writes, in order: C1CON+3, OSC, C1NBTCFG,
\* FIFO 1 control +3, FIFO 2 control +2, +3, +0, filter control 0 three
\* times, C1CON+3
ConfigureWriteAddresses == << 3, 3584, 4, 95, 106, 107, 104, 464, 464, 464, 3 >>
ConfigureWriteLengths == << 1, 1, 4, 1, 1, 1, 1, 1, 1, 1, 1 >>

\* C1: a configure call in which every transaction succeeds and both mode
\* transitions are seen in time issues exactly the eleven register writes of
\* the configuration sequence, in its order, none omitted, repeated or
\* reordered; at every moment of any configure call the writes issued so far
\* are a prefix of that sequence.
C1_ConfigureWriteOrder ==
    op = "configure" =>
      LET bus == Bus
          writes == SelectSeq(bus, IsWrite)
      IN /\ Len(writes) <= Len(ConfigureWriteAddresses)
         /\ \A i \in 1..Len(writes) :
               IsWriteOf(writes[i], ConfigureWriteAddresses[i], ConfigureWriteLengths[i])
         /\ (pc = "done" /\ result.t = "Ok") =>
               /\ Len(writes) = Len(ConfigureWriteAddresses)
               /\ \A i \in 1..Len(bus) : bus[i].ok
               /\ writes[1].cmd[3] % 8 = 4
               /\ writes[8].cmd[3] = 0
               /\ writes[9].cmd[3] = 1
               /\ writes[10].cmd[3] = 129
               /\ writes[11].cmd[3] % 8 = to_operation_mode(config.mode)

C1_Witness == Done("configure") /\ result.t = "Ok" /\ Len(Writes) = 11

\* a successful read of C1CON byte 2 that reported mode m
IsModePoll(x, m) == IsReadOf(x, 2, 1) /\ x.ok /\ ReadByte(x) \div 32 = m

\* C2: configure writes a register other than the C1CON mode request only
\* after a poll of C1CON byte 2 of the same call returned Configuration mode;
\* a call that ends in ConfigurationModeTimeout has issued the mode-request
\* write, then status polls, and no other bus transaction.
C2_ConfigWritesAfterConfigurationMode ==
    op = "configure" =>
      LET bus == Bus
      IN /\ \A i \in 1..Len(bus) :
               (IsWrite(bus[i]) /\ TxnAddress(bus[i]) # 3)
                  => \E j \in 1..(i - 1) : IsModePoll(bus[j], 4)
         /\ (pc = "done" /\ result.t = "ConfigurationModeTimeout") =>
               /\ Len(bus) >= 2
               /\ IsWriteOf(bus[1], 3, 1)
               /\ \A i \in 2..Len(bus) : IsReadOf(bus[i], 2, 1)

C2_Witness ==
    Done("configure") /\ result.t = "ConfigurationModeTimeout" /\ Len(Bus) = 3

\* C3: configure returns ConfigurationModeTimeout or RequestModeTimeout only
\* when the last status read before the return showed a mode other than the
\* one the transition waits for; a status read showing that mode ends the
\* wait successfully.
C3_NoTimeoutOnTargetMode ==
    (Done("configure") /\ result.t \in {"ConfigurationModeTimeout", "RequestModeTimeout"}) =>
      LET bus == Bus
          last == bus[Len(bus)]
          waited == IF result.t = "ConfigurationModeTimeout" THEN 4
                    ELSE to_operation_mode(config.mode)
      IN IsReadOf(last, 2, 1) /\ ReadByte(last) \div 32 # waited

\* C4: configure returns ConfigurationModeTimeout exactly when a clock
\* reading of the poll loop of the first transition lies more than 2 ms after
\* the reading taken after the first mode request, and RequestModeTimeout
\* exactly when all configuration and filter writes were issued and a reading
\* of the second poll loop lies more than 2 ms after the reading taken after
\* the second mode request.
C4_TimeoutKind ==
    op = "configure" =>
      LET bus == Bus
          n == Len(trace)
          reqs == {bus[k].at : k \in {k \in 1..Len(bus) : IsWriteOf(bus[k], 3, 1)}}
          nows == {i \in 1..n : trace[i].e = "now"}
          ReqOf(i) == CHOOSE r \in reqs : r < i /\ \A q \in reqs : q < i => q <= r
          StartOf(i) == CHOOSE t \in nows : t > ReqOf(i) /\ \A q \in nows : q > ReqOf(i) => t <= q
          Late(i) == /\ trace[i].ok
                     /\ i # StartOf(i)
                     /\ trace[i].rx[1] > trace[StartOf(i)].rx[1] + 2
          Kind(i) == IF Cardinality({r \in reqs : r < i}) = 1
                     THEN "ConfigurationModeTimeout" ELSE "RequestModeTimeout"
      IN /\ \A i \in nows : Late(i) => (i = n /\ pc = "done" /\ result.t = Kind(i))
         /\ (pc = "done" /\ result.t \in {"ConfigurationModeTimeout", "RequestModeTimeout"})
               => (n \in nows /\ Late(n) /\ result.t = Kind(n))
         /\ (pc = "done" /\ result.t = "RequestModeTimeout")
               => LET writes == SelectSeq(bus, IsWrite)
                  IN Len(writes) = 11 /\ \A i \in 1..11 : writes[i].ok

\* the second transition times out at a reading the first deadline would
\* have allowed no more
C4_Witness ==
    /\ Done("configure") /\ result.t = "RequestModeTimeout"
    /\ Len(SelectSeq(Bus, LAMBDA x : IsWriteOf(x, 3, 1))) = 2
    /\ now >= 4

\* C5: a transmit called with blocking = false whose first read of TX FIFO
\* status byte 0 shows TFNRFNIF clear returns TxFifoFullErr after that single
\* read, with no further bus activity.
C5_NonBlockingTransmitFull ==
    (op = "transmit" /\ ~blocking) =>
      LET bus == Bus
      IN (Len(bus) >= 1 /\ IsReadOf(bus[1], 108, 1) /\ bus[1].ok /\ ReadByte(bus[1]) % 2 = 0)
            => (pc = "done" /\ result.t = "TxFifoFullErr" /\ Len(bus) = 1)

\* C6: a receive called with blocking = false whose first read of RX FIFO
\* status byte 0 shows TFNRFNIF clear returns RxFifoEmptyErr after that
\* single read, the caller's buffer unchanged.
C6_NonBlockingReceiveEmpty ==
    (op = "receive" /\ ~blocking) =>
      LET bus == Bus
      IN (Len(bus) >= 1 /\ IsReadOf(bus[1], 96, 1) /\ bus[1].ok /\ ReadByte(bus[1]) % 2 = 0)
            => (pc = "done" /\ result.t = "RxFifoEmptyErr" /\ Len(bus) = 1
                /\ data \in ReceiveBuffers)

\* the call ended at a failed chip-select assert, before its next transaction
\* reached the bus
AbortedAtSelect ==
    pc = "done" /\ trace # << >> /\ trace[Len(trace)].e = "low" /\ result.t = "CSError"

\* an access of the message RAM, 0x400 and above
IsRamAccess(x) == TxnAddress(x) >= 1024

\* C7: in a transmit or receive call the message RAM is accessed only when the
\* most recent read of the FIFO's status byte 0 in that call returned
\* TFNRFNIF set; a blocking call that reads the flag clear goes on with
\* another read of that status byte and nothing else (it ends there only when
\* the chip-select of that next read cannot be asserted).
C7_RamAccessOnlyAfterFlagSet ==
    op \in {"transmit", "receive"} =>
      LET bus == Bus
          n == Len(bus)
          status == IF op = "transmit" THEN 108 ELSE 96
          IsStatus(x) == IsReadOf(x, status, 1)
      IN /\ \A i \in 1..n :
               IsRamAccess(bus[i]) =>
                  \E j \in 1..(i - 1) :
                     /\ IsStatus(bus[j]) /\ bus[j].ok /\ ReadByte(bus[j]) % 2 = 1
                     /\ \A k \in (j + 1)..(i - 1) : ~IsStatus(bus[k])
         /\ blocking =>
               \A i \in 1..n :
                  (IsStatus(bus[i]) /\ bus[i].ok /\ ReadByte(bus[i]) % 2 = 0)
                     => IF i = n THEN pc \in {"tx_status", "rx_status"} \/ AbortedAtSelect
                        ELSE IsStatus(bus[i + 1])

C7_Witness ==
    /\ Done("transmit") /\ result.t = "Ok" /\ blocking
    /\ Len(SelectSeq(Bus, LAMBDA x : IsReadOf(x, 108, 1))) = 2

\* C8: a successful transmit has issued, in this order, one or more reads of
\* TX FIFO status byte 0 (0x06C), one read of C1CON byte 2, one 32-bit read of
\* the TX FIFO user address (0x070), one RAM write at that user address plus
\* 0x400, one write of 0x03 to TX FIFO control byte 1 (0x069); in every
\* transmit call 0x03 is written at most once and only after the RAM write
\* succeeded.
C8_TransmitOrder ==
    op = "transmit" =>
      LET bus == Bus
          n == Len(bus)
          k == Cardinality({i \in 1..n : IsReadOf(bus[i], 108, 1)})
          reqs == {i \in 1..n : IsWrite(bus[i]) /\ TxnAddress(bus[i]) = 105}
      IN /\ Cardinality(reqs) <= 1
         /\ \A i \in reqs : i > 1 /\ IsRamAccess(bus[i - 1]) /\ IsWrite(bus[i - 1]) /\ bus[i - 1].ok
         /\ (pc = "done" /\ result.t = "Ok") =>
               /\ k >= 1 /\ n >= k + 4
               /\ \A i \in 1..k : IsReadOf(bus[i], 108, 1)
               /\ IsReadOf(bus[k + 1], 2, 1)
               /\ IsReadOf(bus[k + 2], 112, 4)
               /\ IsWrite(bus[k + 3]) /\ bus[k + 3].ok
               /\ bus[k + 2].rx[5] = 0 /\ bus[k + 2].rx[6] = 0
               /\ TxnAddress(bus[k + 3]) = bus[k + 2].rx[3] + 256 * bus[k + 2].rx[4] + 1024
               /\ Len(bus[k + 3].cmd) = 10
               /\ bus[k + 3].data = PadPayload(message.buff, message.message_type.L)
               /\ IsWriteOf(bus[k + 4], 105, 1) /\ bus[k + 4].cmd[3] = 3
               /\ \A i \in (k + 5)..n : IsReadOf(bus[i], 105, 1)

\* C9: a blocking transmit returns Ok only after a read of TX FIFO control
\* byte 1, made after the write of TXREQ|UINC, shows TXREQ clear, every
\* earlier such read having shown it set; a non-blocking transmit returns Ok
\* with that write as its last bus transaction.
C9_TxreqPolledOnlyWhenBlocking ==
    (Done("transmit") /\ result.t = "Ok") =>
      LET bus == Bus
          n == Len(bus)
          w == CHOOSE i \in 1..n : IsWriteOf(bus[i], 105, 1)
      IN IF blocking
         THEN /\ n > w
              /\ \A i \in (w + 1)..n : IsReadOf(bus[i], 105, 1) /\ bus[i].ok
              /\ \A i \in (w + 1)..(n - 1) : (ReadByte(bus[i]) \div 2) % 2 = 1
              /\ (ReadByte(bus[n]) \div 2) % 2 = 0
         ELSE n = w

\* C10: a transmit whose payload is longer than 8 bytes and whose operation
\* status read reports a mode other than NormalCANFD returns
\* InvalidPayloadLength(payload length) with that read as its last bus
\* transaction; with a payload of at most 8 bytes, or in NormalCANFD mode, the
\* call goes on to the user-address read and never returns
\* InvalidPayloadLength.
C10_PayloadLengthCheck ==
    op = "transmit" =>
      LET bus == Bus
          n == Len(bus)
          len == Len(message.buff)
      IN /\ \A i \in 1..n :
               (IsReadOf(bus[i], 2, 1) /\ bus[i].ok) =>
                  IF len > 8 /\ ReadByte(bus[i]) \div 32 # 0
                  THEN i = n /\ pc = "done" /\ result = Err("InvalidPayloadLength", len)
                  ELSE i = n => (pc = "tx_user_address" \/ AbortedAtSelect)
         /\ (pc = "done" /\ result.t = "InvalidPayloadLength") =>
               (len > 8 /\ n >= 1 /\ IsReadOf(bus[n], 2, 1) /\ ReadByte(bus[n]) \div 32 # 0)

C10_Witness ==
    /\ Done("transmit") /\ result = Err("InvalidPayloadLength", 9)
    /\ LET bus == Bus IN IsReadOf(bus[Len(bus)], 2, 1) /\ ReadByte(bus[Len(bus)]) \div 32 = 6


\* the u16 RAM address transmit and receive pass on after a read of the user
\* address that answered x: the low half of the sum with 0x400
PassedAddress(x) == (x.rx[3] + 256 * x.rx[4] + 1024) % 65536
\* the 32-bit sum of that user address with 0x400 does not fit 32 bits
SumOverflows(x) ==
    x.rx[5] = 255 /\ x.rx[6] = 255 /\ x.rx[3] + 256 * x.rx[4] + 1024 >= 65536

\* C11: in transmit a FIFO write to RAM address addr for a payload of length
\* len is rejected with InvalidRamAddress(addr) exactly when addr < 0x400 or
\* addr + len > 0xBFF; a rejected call has no bus transaction after the read
\* of the user address, an accepted one goes on with the RAM write at addr.
C11_RamAddressGuard ==
    op = "transmit" =>
      LET bus == Bus
          n == Len(bus)
          len == Len(message.buff)
      IN \A i \in 1..n :
            (IsReadOf(bus[i], 112, 4) /\ bus[i].ok /\ pc # "tx_write_fifo"
             /\ ~SumOverflows(bus[i])) =>
               LET addr == PassedAddress(bus[i]) IN
               IF addr < 1024 \/ addr + len > 3071
               THEN pc = "done" /\ result = Err("InvalidRamAddress", addr) /\ i = n
               ELSE /\ result.t # "InvalidRamAddress"
                    /\ IF i = n THEN AbortedAtSelect
                       ELSE IsWrite(bus[i + 1]) /\ TxnAddress(bus[i + 1]) = addr

\* len rounded up to a multiple of 4
pad4(len) == ((len + 3) \div 4) * 4

\* C12: every FIFO write of transmit that reaches the bus has a RAM address
\* addr with 0x400 <= addr and addr + pad4(len) <= 0xC00, len the payload
\* length; for every other address the call returns InvalidRamAddress and no
\* bus write occurs.
C12_FifoWriteInsideRam ==
    op = "transmit" =>
      LET bus == Bus
          n == Len(bus)
          len == Len(message.buff)
      IN \A i \in 1..n :
            (IsReadOf(bus[i], 112, 4) /\ bus[i].ok /\ pc # "tx_write_fifo"
             /\ ~SumOverflows(bus[i])) =>
               LET addr == PassedAddress(bus[i]) IN
               IF addr >= 1024 /\ addr + pad4(len) <= 3072
               THEN TRUE
               ELSE pc = "done" /\ result.t = "InvalidRamAddress" /\ i = n

\* C13: a successful receive has issued, in this order, one or more reads of
\* RX FIFO status byte 0 (0x060), one 32-bit read of the RX FIFO user address
\* (0x064), one RAM read of L bytes at that user address plus 0x400 plus 8,
\* one write of 0x01 to RX FIFO control byte 1 (0x05D), and nothing else; in
\* every receive call 0x01 is written at most once and only after the RAM
\* read succeeded.
C13_ReceiveOrder ==
    op = "receive" =>
      LET bus == Bus
          n == Len(bus)
          k == Cardinality({i \in 1..n : IsReadOf(bus[i], 96, 1)})
          uincs == {i \in 1..n : IsWrite(bus[i]) /\ TxnAddress(bus[i]) = 93}
      IN /\ Cardinality(uincs) <= 1
         /\ \A i \in uincs : i > 1 /\ IsRamAccess(bus[i - 1]) /\ IsRead(bus[i - 1]) /\ bus[i - 1].ok
         /\ (pc = "done" /\ result.t = "Ok") =>
               /\ k >= 1 /\ n = k + 3
               /\ \A i \in 1..k : IsReadOf(bus[i], 96, 1)
               /\ IsReadOf(bus[k + 1], 100, 4)
               /\ IsRead(bus[k + 2]) /\ bus[k + 2].ok
               /\ Len(bus[k + 2].cmd) = 2 /\ Len(bus[k + 2].drx) = Len(data)
               /\ bus[k + 1].rx[5] = 0 /\ bus[k + 1].rx[6] = 0
               /\ TxnAddress(bus[k + 2])
                     = bus[k + 1].rx[3] + 256 * bus[k + 1].rx[4] + 1024 + 8
               /\ IsWriteOf(bus[k + 3], 93, 1) /\ bus[k + 3].cmd[3] = 1

\* C14: a FIFO read into a buffer whose length L is not a multiple of 4
\* returns InvalidBufferSize(L) with no chip-select assert and no transfer
\* after the read of the user address; a buffer of a multiple of 4 bytes never
\* gets that error.
C14_InvalidBufferSize ==
    op = "receive" =>
      LET bus == Bus
          n == Len(bus)
      IN /\ \A i \in 1..n :
               (IsReadOf(bus[i], 100, 4) /\ bus[i].ok /\ pc # "rx_read_fifo"
                /\ ~SumOverflows(bus[i])) =>
                  IF Len(data) % 4 # 0
                  THEN /\ pc = "done" /\ result = Err("InvalidBufferSize", Len(data))
                       /\ i = n /\ trace[Len(trace)].e = "high"
                  ELSE result.t # "InvalidBufferSize"
         /\ result.t = "InvalidBufferSize" => Len(data) % 4 # 0

C14_Witness ==
    /\ Done("receive") /\ result = Err("InvalidBufferSize", 3)
    /\ LET bus == Bus IN IsReadOf(bus[Len(bus)], 100, 4)

\* the bytes a write transaction carries after its two command bytes
Written(x) == SubSeq(x.cmd, 3, Len(x.cmd))

\* the filter of the example: standard id 0x6A5, index 1, mask 0x003, standard
\* frames only
ExampleFilter ==
    [index |-> 1,
     mask_bits |-> [mide |-> TRUE, msid11 |-> FALSE, meid |-> 0, msid |-> 3],
     filter_bits |-> [exide |-> FALSE, sid11 |-> FALSE, eid |-> 0, sid |-> 1701]]

\* C15: set_filter_object(filter) issues exactly four writes, in this order:
\* 0x00 to the filter-control byte of filter.index (0x1D0 + index), the 32-bit
\* filter object little-endian to 0x1F0 + 8 * index, the 32-bit filter mask
\* little-endian to 0x1F4 + 8 * index, 0x81 to the filter-control byte; a call
\* cut short by a failure has issued a prefix of these.  For the example
\* filter the bytes on the bus are 21 D1 00, 21 F8 A5 06 00 00,
\* 21 FC 03 00 00 40, 21 D1 81.
C15_SetFilterObjectWrites ==
    op = "set_filter_object" =>
      LET bus == Bus
          n == Len(bus)
          o == filter.filter_bits
          m == filter.mask_bits
          object == o.sid + 2048 * o.eid + 536870912 * BoolU8(o.sid11)
                    + 1073741824 * BoolU8(o.exide)
          mask == m.msid + 2048 * m.meid + 536870912 * BoolU8(m.msid11)
                  + 1073741824 * BoolU8(m.mide)
          expected ==
            << [a |-> 464 + filter.index, b |-> << 0 >>],
               [a |-> 496 + 8 * filter.index, b |-> to_le_bytes(object)],
               [a |-> 500 + 8 * filter.index, b |-> to_le_bytes(mask)],
               [a |-> 464 + filter.index, b |-> << 129 >>] >>
      IN /\ n <= 4
         /\ \A i \in 1..n :
               /\ IsWrite(bus[i]) /\ bus[i].data = << >>
               /\ TxnAddress(bus[i]) = expected[i].a
               /\ Written(bus[i]) = expected[i].b
               /\ i < n => bus[i].ok
         /\ (pc = "done" /\ result.t = "Ok") => n = 4 /\ bus[4].ok
         /\ (pc = "done" /\ result.t = "Ok" /\ filter = ExampleFilter) =>
               /\ bus[1].cmd = << 33, 209, 0 >>
               /\ bus[2].cmd = << 33, 248, 165, 6, 0, 0 >>
               /\ bus[3].cmd = << 33, 252, 3, 0, 0, 64 >>
               /\ bus[4].cmd = << 33, 209, 129 >>

C15_Witness ==
    /\ Done("set_filter_object") /\ result.t = "Ok" /\ filter = ExampleFilter
    /\ LET bus == Bus IN Len(bus) = 4 /\ bus[3].cmd = << 33, 252, 3, 0, 0, 64 >>

\* C16: enable_filter(fifo_index, filter_index) issues exactly three writes,
\* all to 0x1D0 + filter_index: 0x00, then fifo_index, then 0x80 | fifo_index;
\* disable_filter(filter_index) issues exactly one write, of 0x00, to that
\* address; a call cut short by a failure has issued a prefix of these.
C16_EnableDisableFilterWrites ==
    (op = "enable_filter" \/ op = "disable_filter") =>
      LET bus == Bus
          n == Len(bus)
          values == IF op = "disable_filter" THEN << 0 >>
                    ELSE << 0, fifo_index,
                            IF fifo_index >= 128 THEN fifo_index ELSE 128 + fifo_index >>
      IN /\ n <= Len(values)
         /\ \A i \in 1..n :
               /\ IsWriteOf(bus[i], 464 + filter_index, 1)
               /\ bus[i].cmd[3] = values[i]
               /\ i < n => bus[i].ok
         /\ (pc = "done" /\ result.t = "Ok") => n = Len(values) /\ bus[n].ok

C16_Witness ==
    /\ Done("enable_filter") /\ result.t = "Ok" /\ fifo_index = 2 /\ filter_index = 6
    /\ LET bus == Bus IN Len(bus) = 3 /\ bus[3].cmd = << 33, 214, 130 >>

C16_WitnessDisable ==
    /\ Done("disable_filter") /\ result.t = "Ok" /\ filter_index = 6
    /\ LET bus == Bus IN Len(bus) = 1 /\ bus[1].cmd = << 33, 214, 0 >>

\* TxMessage::new has returned a message
Built == op = "TxMessage::new" /\ pc = "done" /\ result.t = "Ok"

\* C17: for every payload length n accepted by TxMessage::new the data length
\* code of the header is the smallest code among those of 0..8, 12, 16, 20,
\* 24, 32, 48, 64 bytes whose byte count is >= n.
C17_SmallestDlc ==
    Built =>
      LET n == Len(new_data)
          bytes == << 0, 1, 2, 3, 4, 5, 6, 7, 8, 12, 16, 20, 24, 32, 48, 64 >>
          code == message.header.data_length_code
      IN /\ code \in 0..15
         /\ bytes[code + 1] >= n
         /\ \A c \in 0..15 : bytes[c + 1] >= n => c >= code

C17_Witness ==
    Built /\ Len(new_data) = 9 /\ message.header.data_length_code = 9

\* C18: TxMessage::new returns InvalidLength(n) only with n the payload
\* length, and exactly when the payload length exceeds the maximum of the kind
\* (L, capped at 8 for Can20 and at 64 for CanFd); it returns
\* InvalidTypeSize(L) exactly when the length check passes and L is not a
\* multiple of 4.
C18_LengthErrors ==
    (op = "TxMessage::new" /\ pc = "done") =>
      LET n == Len(new_data)
          L == new_type.L
          maximum == Min(L, IF new_type.kind = "Can20" THEN 8 ELSE 64)
      IN /\ result.t = "InvalidLength" <=> n > maximum
         /\ result.t = "InvalidLength" => result.v = n
         /\ result.t = "InvalidTypeSize" <=> (n <= maximum /\ L % 4 # 0)
         /\ result.t = "InvalidTypeSize" => result.v = L

\* C19: a Can20 message built by TxMessage::new has a payload of at most 8
\* bytes and the FD-frame and bit-rate-switch bits of its header clear; a CanFd
\* message has a payload of at most 64 bytes, the FD-frame bit set and the
\* bit-rate-switch bit equal to bitrate_switch of the kind.
C19_KindBits ==
    Built =>
      LET h == message.header IN
      IF new_type.kind = "Can20"
      THEN Len(message.buff) <= 8 /\ ~h.fd_frame /\ ~h.bit_rate_switch
      ELSE /\ Len(message.buff) <= 64 /\ h.fd_frame
           /\ h.bit_rate_switch = new_type.bitrate_switch

C19_Witness ==
    /\ Built /\ new_type.kind = "CanFd" /\ new_type.bitrate_switch
    /\ Len(message.buff) = 64 /\ message.header.fd_frame /\ message.header.bit_rate_switch

\* C20: for an extended 29-bit identifier the header built by TxMessage::new
\* has the low 18 bits in extended_identifier, bits 18-28 in
\* standard_identifier and the identifier-extension flag set, and decoding as
\* (standard << 18) | extended gives the identifier back; a standard
\* identifier is stored in standard_identifier with the flag clear and
\* extended_identifier zero, and decodes to itself.
C20_IdentifierFields ==
    Built =>
      LET h == message.header IN
      IF new_id.ext
      THEN /\ h.extended_identifier = new_id.raw % 262144
           /\ h.standard_identifier = new_id.raw \div 262144
           /\ h.identifier_extension_flag
           /\ get_id(h) = new_id
      ELSE /\ h.standard_identifier = new_id.raw
           /\ ~h.identifier_extension_flag
           /\ h.extended_identifier = 0
           /\ get_id(h) = new_id

C20_Witness ==
    /\ Built /\ new_id = ExtendedTestId
    /\ message.header.standard_identifier = 1330
    /\ message.header.extended_identifier = 76331
    /\ get_id(message.header).raw = 348727851

\* C21: for every ClockConfiguration c, decoding the register byte produced
\* by encoding c gives c again, and the encoded byte has its clock output in
\* bits 6-5, its system clock in bit 4, its disable flag in bit 2, its PLL
\* setting in bit 0 and no other bit set.
C21_ClockRoundTrip ==
    (op = "ClockConfiguration" /\ pc = "done") =>
      LET c == config.clock IN
      /\ decoded = c
      /\ register_byte = 32 * c.clock_output + 16 * c.system_clock
                    + 4 * BoolU8(c.disable_clock) + c.pll
      /\ register_byte \in 0..255
      /\ (register_byte \div 128) % 2 = 0 /\ (register_byte \div 8) % 2 = 0
      /\ (register_byte \div 2) % 2 = 0

C21_Witness ==
    /\ op = "ClockConfiguration" /\ pc = "done"
    /\ config.clock = [clock_output |-> 3, system_clock |-> 1, disable_clock |-> TRUE, pll |-> 1]
    /\ register_byte = 117 /\ decoded = config.clock

\* C22: the payload phase of a FIFO write (the second transfer of its
\* chip-select cycle) carries exactly L bytes, L the maximum of the message
\* kind: the first len bytes are the message payload, the bytes after them
\* are zero, for the payload length len <= L.
C22_PayloadPhase ==
    op = "transmit" =>
      LET bus == Bus
          L == message.message_type.L
          len == Len(message.buff)
      IN /\ len <= L
         /\ \A i \in 1..Len(bus) :
               (IsWrite(bus[i]) /\ Len(bus[i].cmd) = 10) =>
                 /\ bus[i].sent => Len(bus[i].data) = L
                 /\ bus[i].data # << >> =>
                       /\ Len(bus[i].data) = L
                       /\ \A k \in 1..L :
                             bus[i].data[k] = IF k <= len THEN message.buff[k] ELSE 0

C22_Witness ==
    /\ Done("transmit") /\ result.t = "Ok" /\ Len(message.buff) = 3
    /\ LET bus == Bus IN
       \E i \in 1..Len(bus) : bus[i].data = << 1, 2, 3, 0, 0, 0, 0, 0 >>

\* the pin and bus events of the trace: chip-select low and high, transfers
IsPinOrBus(ev) == ev.e \in { "low", "xfer", "data", "high" }

\* C23: in every public operation the first failing chip-select or SPI
\* transfer ends the call; the error returned is that failure's (CSError with
\* the pin's error value, TransferError with the bus's); no SPI transfer and no
\* chip-select assert follows it within the call; a failed chip-select assert
\* is the last event of the call.
C23_FirstFailureReturned ==
    LET fails == { j \in 1..Len(trace) : IsPinOrBus(trace[j]) /\ ~trace[j].ok } IN
    fails # {} =>
      LET j == CHOOSE k \in fails : \A l \in fails : k <= l IN
      /\ pc = "done"
      /\ result = IF trace[j].e \in { "low", "high" } THEN CSError ELSE TransferError
      /\ \A k \in (j + 1)..Len(trace) : trace[k].e \notin { "low", "xfer", "data" }
      /\ trace[j].e = "low" => j = Len(trace)

\* a RAM read of receive: a read command followed by a transfer of the buffer
IsFifoRead(x) == IsRead(x) /\ Len(x.cmd) = 2

\* C24: every RAM read issued by receive covers only chip RAM 0x400-0xBFF:
\* for every 32-bit value read from the RX FIFO user-address register, either
\* the L bytes starting at user_addr + 0x400 + 8 lie within 0x400-0xBFF, or
\* receive returns an error (or aborts on an arithmetic overflow) with no RAM
\* read issued and no UINC written.
C24_ReceiveInsideRam ==
    op = "receive" =>
      LET bus == Bus
          n == Len(bus)
          L == Len(data)
      IN /\ \A i \in 1..n :
               IsFifoRead(bus[i]) =>
                  TxnAddress(bus[i]) >= 1024 /\ TxnAddress(bus[i]) + L <= 3072
         /\ \A i \in 1..n :
               (IsReadOf(bus[i], 100, 4) /\ bus[i].ok /\ pc # "rx_read_fifo") =>
                  LET lo == bus[i].rx[3] + 256 * bus[i].rx[4]
                      hi == bus[i].rx[5] + 256 * bus[i].rx[6]
                  IN \/ hi = 0 /\ lo + 1032 + L <= 3072
                     \/ pc = "done" /\ result.t \notin { "Ok", "None" } /\ i = n

\* C25: for every argument accepted by enable_filter, disable_filter and
\* set_filter_object, each filter register access addresses a filter index in
\* 0..31 (filter-control byte within 0x1D0..0x1EF, object and mask registers
\* within 0x1F0..0x2EF), and each byte written to a filter-control byte is
\* 0x00 or has a FIFO index in 1..31 in its low five bits and bits 5-6 clear.
C25_FilterIndexesInRange ==
    op \in { "enable_filter", "disable_filter", "set_filter_object" } =>
      LET bus == Bus IN
      \A i \in 1..Len(bus) :
         LET v == bus[i].cmd[3] IN
         \/ /\ TxnAddress(bus[i]) \in 464..495
            /\ Len(bus[i].cmd) = 3
            /\ v = 0 \/ (v % 32 \in 1..31 /\ (v \div 32) % 4 = 0)
         \/ /\ op = "set_filter_object"
            /\ TxnAddress(bus[i]) \in 496..751
            /\ Len(bus[i].cmd) = 6

\* C26: Filter::new(id, index) returns None exactly when index > 31,
\* otherwise a filter with that index, the identifier in the bits of its
\* filter object and an all-zero mask; after any sequence of
\* set_mask_standard_id, set_mask_extended_id, match_standard_only and
\* match_extended_only calls the index and the identifier bits of the filter
\* object are what Filter::new made them.
C26_FilterConstruction ==
    (op \in { "Filter::new", "Filter" } /\ pc = "done") =>
      LET o == filter.filter_bits
          m == filter.mask_bits
          made == /\ filter.index = filter_index
                  /\ ~o.sid11
                  /\ IF new_id.ext
                     THEN o.eid = new_id.raw % 262144 /\ o.sid = new_id.raw \div 262144
                     ELSE o.eid = 0 /\ o.sid = new_id.raw
      IN /\ op = "Filter::new" =>
               /\ result.t = "Option::None" <=> filter_index > 31
               /\ result.t = "Ok" <=> filter_index <= 31
               /\ result.t = "Ok" =>
                     /\ made
                     /\ ~o.exide
                     /\ ~m.mide /\ ~m.msid11 /\ m.meid = 0 /\ m.msid = 0
         /\ op = "Filter" => made

C26_Witness ==
    /\ op = "Filter" /\ pc = "done" /\ result.t = "Ok"
    /\ filter.index = 31 /\ new_id = ExtendedTestId
    /\ filter.filter_bits = [exide |-> TRUE, sid11 |-> FALSE, eid |-> 76331, sid |-> 1330]
    /\ filter.mask_bits = [mide |-> TRUE, msid11 |-> FALSE, meid |-> 262143, msid |-> 3]

\* the C1NBTCFG writes of the call: six-byte writes to address 0x004
NbtWrites == SelectSeq(Bus, LAMBDA x : IsWriteOf(x, 4, 4))

\* C27: with sys_clk 20 MHz and can_speed 500 kbps, the C1NBTCFG write issued
\* by configure carries, after the two command bytes, the data bytes 0x01,
\* 0x1E, 0x07, 0x00 in that wire order.
C27_NbtBytesAsStated ==
    (op = "configure" /\ config.bit_rate = [sys_clk |-> "MHz20", can_speed |-> "Kpbs500"]) =>
      LET w == NbtWrites IN
      \A i \in 1..Len(w) : Written(w[i]) = << 1, 30, 7, 0 >>

\* C27, amended: with sys_clk 20 MHz and can_speed 500 kbps, the C1NBTCFG
\* write issued by configure carries, after the two command bytes, the data
\* bytes 0x01, 0x07, 0x1E, 0x00 in that wire order (SJW, TSEG2, TSEG1, BRP).
C27_NbtBytes ==
    (op = "configure" /\ config.bit_rate = [sys_clk |-> "MHz20", can_speed |-> "Kpbs500"]) =>
      LET w == NbtWrites IN
      /\ Len(w) <= 1
      /\ \A i \in 1..Len(w) : Written(w[i]) = << 1, 7, 30, 0 >>
      /\ (pc = "done" /\ result.t = "Ok") => Len(w) = 1

C27_Witness ==
    /\ Done("configure") /\ result.t = "Ok"
    /\ config.bit_rate = [sys_clk |-> "MHz20", can_speed |-> "Kpbs500"]
    /\ LET w == NbtWrites IN Len(w) = 1 /\ w[1].cmd = << 32, 4, 1, 7, 30, 0 >>

\* the row of the bit-time table for a (sys_clk, can_speed) pair
BitTimeRow(b) ==
    LET row(t1, t2) == [brp |-> 0, tseg1 |-> t1, tseg2 |-> t2, sjw |-> 1] IN
    CASE b.sys_clk = "MHz20" /\ b.can_speed = "Kbps1000" -> row(13, 4)
      [] b.sys_clk = "MHz20" /\ b.can_speed = "Kpbs500" -> row(30, 7)
      [] b.sys_clk = "Mhz40" /\ b.can_speed = "Kbps1000" -> row(30, 7)
      [] b.sys_clk = "MHz20" /\ b.can_speed = "Kbps250" -> row(62, 15)
      [] b.sys_clk = "Mhz40" /\ b.can_speed = "Kpbs500" -> row(62, 15)
      [] b.sys_clk = "MHz20" /\ b.can_speed = "Kbps125" -> row(126, 31)
      [] b.sys_clk = "Mhz40" /\ b.can_speed = "Kbps250" -> row(126, 31)
      [] OTHER -> row(255, 63)

\* the wire bytes of a row: [SJW, TSEG2, TSEG1, BRP]
RowBytes(r) == << r.sjw, r.tseg2, r.tseg1, r.brp >>

\* the bytes are the little-endian bytes of BRP(8)|TSEG1(8)|rsv|TSEG2(7)|rsv|SJW(7)
IsImageOf(bytes, r) ==
    /\ Len(bytes) = 4
    /\ \A k \in 1..4 : bytes[k] \in 0..255
    /\ bytes[4] = r.brp
    /\ bytes[3] = r.tseg1
    /\ bytes[2] \div 128 = 0 /\ bytes[2] % 128 = r.tseg2
    /\ bytes[1] \div 128 = 0 /\ bytes[1] % 128 = r.sjw

C28_WitnessFallback ==
    /\ op = "BitRateConfig" /\ pc = "done"
    /\ config.bit_rate = [sys_clk |-> "Mhz40", can_speed |-> "Kbps10"]
    /\ image = << 1, 63, 255, 0 >>

C28_WitnessConfigure ==
    /\ Done("configure") /\ result.t = "Ok"
    /\ config.bit_rate = [sys_clk |-> "MHz20", can_speed |-> "Kbps250"]
    /\ LET w == NbtWrites IN Len(w) = 1 /\ Written(w[1]) = << 1, 15, 62, 0 >>

\* the low five bits and the bits above them of a register byte
LowFive(byte) == byte % 32
AboveFive(byte) == byte \div 32

\* clamp(size, 1, 32) - 1
SizeField(size) == IF size = 0 THEN 0 ELSE IF size > 32 THEN 31 ELSE size - 1

C29_WitnessAbove ==
    /\ op = "FifoConfiguration" /\ pc = "done"
    /\ config.fifo.tx_size = 255 /\ config.fifo.pl_size = PayloadSize.TwentyBytes
    /\ image[4] = 127

C29_WitnessPriority ==
    /\ op = "FifoConfiguration" /\ pc = "done"
    /\ config.fifo.tx_priority = 255
    /\ config.fifo.tx_attempts = RetransmissionAttempts.Three
    /\ image[3] = 63

\* C30: enable_mode changes only the request-mode field and the
\* abort-all-transactions bit of C1CON byte 3: each write of the byte in a
\* configure call directly follows a read of the byte, and carries the
\* requested mode in bits 0-2, the abort bit (bit 3) set, and bits 4-7 as the
\* read returned them.
C30_ReadModifyWrite ==
    op = "configure" =>
      LET bus == Bus
          \* the mode the k-th enable_mode of configure is called with
          requested(k) == IF k = 1 THEN Configuration ELSE to_operation_mode(config.mode)
          earlier(i) == Len(SelectSeq(SubSeq(bus, 1, i),
                                      LAMBDA x : IsWriteOf(x, REGISTER_C1CON + 3, 1)))
      IN
      \A i \in 1..Len(bus) :
        IsWriteOf(bus[i], REGISTER_C1CON + 3, 1) =>
          /\ i > 1
          /\ IsReadOf(bus[i - 1], REGISTER_C1CON + 3, 1)
          /\ bus[i - 1].ok
          /\ Written(bus[i])[1] % 8 = requested(earlier(i))
          /\ (Written(bus[i])[1] \div 8) % 2 = 1
          /\ Written(bus[i])[1] \div 16 = ReadByte(bus[i - 1]) \div 16

\* the command phase of a FIFO access: the transfer of the two command bytes
\* of a RAM read, or of the command and the header of a RAM write
IsFifoCommand(ev) == ev.e = "xfer" /\ Len(ev.tx) \in { 2, 10 }

\* C31: a FIFO write and a FIFO read each run inside a single chip-select
\* cycle: chip-select is asserted once, directly before the command phase;
\* the data phase directly follows the command phase; chip-select is released
\* once, directly after the data phase, before the call goes on or returns.
C31_FifoSingleSelectCycle ==
    \A i \in 1..Len(trace) :
      IsFifoCommand(trace[i]) =>
        /\ i > 1 /\ trace[i - 1] = EvLow(TRUE)
        /\ i < Len(trace) => trace[i + 1].e = "data"
        /\ (i + 1 < Len(trace)) => trace[i + 2].e = "high"
        /\ pc = "done" => (Len(trace) >= i + 2 /\ trace[i + 2].e = "high")

\* the transfer of the mode-request write, that of a status poll
IsModeRequestTransfer(ev) ==
    ev.e = "xfer" /\ Len(ev.tx) = 3 /\ ev.tx[1] = 32 /\ ev.tx[2] = 3
IsStatusPollTransfer(ev) ==
    ev.e = "xfer" /\ Len(ev.tx) = 3 /\ ev.tx[1] = 48 /\ ev.tx[2] = 2

\* C32: every clock reading of a configure call directly follows a completed
\* bus transaction, the mode-request write for the reading that starts the
\* deadline and a status poll for every other; when a reading fails, or the
\* start reading plus 2 ms is not representable, the reading is the last
\* event of the call, which returns ClockError.
C32_ClockErrorEndsConfigure ==
    op = "configure" =>
      \A j \in 1..Len(trace) :
        trace[j].e = "now" =>
          /\ j >= 4
          /\ trace[j - 1] = EvHigh(TRUE)
          /\ trace[j - 2].ok
          /\ IsModeRequestTransfer(trace[j - 2]) \/ IsStatusPollTransfer(trace[j - 2])
          /\ (\/ ~trace[j].ok
              \/ /\ IsModeRequestTransfer(trace[j - 2])
                 /\ trace[j].rx[1] + TimeoutMs > ClockMax)
               => (j = Len(trace) /\ pc = "done" /\ result = Err("ClockError", 0))

\* a reading taken after a status poll fails
C32_Witness ==
    /\ Done("configure") /\ result = Err("ClockError", 0)
    /\ Len(trace) >= 4
    /\ ~trace[Len(trace)].ok
    /\ IsStatusPollTransfer(trace[Len(trace) - 2])

\* the start reading fails
C32_WitnessStart ==
    /\ Done("configure") /\ result = Err("ClockError", 0)
    /\ Len(trace) >= 4
    /\ ~trace[Len(trace)].ok
    /\ IsModeRequestTransfer(trace[Len(trace) - 2])

\* the start reading succeeds and the deadline is not representable
C32_WitnessDeadline ==
    /\ Done("configure") /\ result = Err("ClockError", 0)
    /\ Len(trace) >= 4
    /\ trace[Len(trace)] = EvNow(TRUE, ClockMax - 1)
    /\ IsModeRequestTransfer(trace[Len(trace) - 2])

\* C33: enable_mode terminates. With bus transactions and clock readings that
\* return, the mode request and the start reading are left behind; with a
\* clock that does not stand still and can read past the deadline (the
\* deadline is below the clock's largest instant), the poll loop is left,
\* with success, a timeout, a bus error or a clock error, whatever modes the
\* chip reports.
C33_EnableModeTerminates ==
    /\ (pc \in { "em_request", "em_start" }) ~> (pc \notin { "em_request", "em_start" })
    /\ (pc \in { "em_poll", "em_check" } /\ target < ClockMax)
          ~> (pc \notin { "em_poll", "em_check" })

\* the call returned with a timeout, the chip's last report not the target mode
C33_Witness ==
    /\ Done("configure")
    /\ result.t \in { "ConfigurationModeTimeout", "RequestModeTimeout" }
    /\ current_mode \notin { -1, mode }
    /\ now > target

\* C34: the first phase of a FIFO write is exactly 10 bytes: the two bytes of
\* the Write command for the RAM address, then header word 0 and header word
\* 1, each with its least significant byte first (each group of four the
\* reverse of the MSB-first packed header), so that the first byte sent of
\* word 1 holds the DLC in its low nibble.
C34_FifoWriteFirstPhase ==
    op = "transmit" =>
      LET bus == Bus
          h == message.header
          packed == into_bytes(h)
          sid == h.standard_identifier
          eid == h.extended_identifier
      IN
      \A i \in 1..Len(bus) :
        (IsWrite(bus[i]) /\ Len(bus[i].cmd) # 3) =>
          LET c == bus[i].cmd IN
          /\ Len(c) = 10
          /\ i > 1 /\ TxnAddress(bus[i]) = PassedAddress(bus[i - 1]) % 4096
          /\ c[1] \div 16 = OperationWrite
          /\ << c[6], c[5], c[4], c[3] >> = SubSeq(packed, 1, 4)
          /\ << c[10], c[9], c[8], c[7] >> = SubSeq(packed, 5, 8)
          /\ c[3] = sid % 256
          /\ c[4] = sid \div 256 + 8 * (eid % 32)
          /\ c[5] = (eid \div 32) % 256
          /\ c[6] = eid \div 8192 + 32 * BoolU8(h.sid11)
          /\ c[7] % 16 = h.data_length_code
          /\ c[7] \div 16 = BoolU8(h.identifier_extension_flag)
                             + 2 * BoolU8(h.remote_transmission_request)
                             + 4 * BoolU8(h.bit_rate_switch) + 8 * BoolU8(h.fd_frame)
          /\ c[8] = BoolU8(h.error_status_indicator) + 2 * h.sequence
          /\ c[9] = 0 /\ c[10] = 0

\* the extended identifier 0x14C92A2B and eight bytes of payload, written at
\* RAM address 0x4A2
C34_Witness ==
    /\ Done("transmit") /\ result.t = "Ok"
    /\ LET bus == Bus IN
       \E i \in 1..Len(bus) :
         bus[i].cmd = << 40, 162, 50, 93, 81, 9, 24, 0, 0, 0 >>

\* C35: whenever transmit writes a message object to RAM, every byte of the
\* object, the 8 header bytes and the L payload bytes after them, lies within
\* chip RAM 0x400-0xBFF: the address passed on is the address on the wire (no
\* wrap in the 12-bit address space), it is 0x400 or above, and the object
\* ends at 0xBFF or below.
C35_MessageObjectInsideRam ==
    op = "transmit" =>
      LET bus == Bus
          L == message.message_type.L
      IN
      \A i \in 2..Len(bus) :
        (IsWrite(bus[i]) /\ Len(bus[i].cmd) = 10) =>
          LET addr == PassedAddress(bus[i - 1]) IN
          /\ TxnAddress(bus[i]) = addr
          /\ addr >= 1024
          /\ addr + 8 + L <= 3072

\* C36: for every message accepted by TxMessage::new with kind parameter L,
\* the byte count denoted by the data length code of the header is at most L,
\* the number of payload bytes transmit writes to RAM.
C36_DlcWithinKind ==
    Built =>
      LET bytes == << 0, 1, 2, 3, 4, 5, 6, 7, 8, 12, 16, 20, 24, 32, 48, 64 >>
          code == message.header.data_length_code
      IN /\ code \in 0..15
         /\ bytes[code + 1] <= new_type.L

\* C37: transmit computes the RAM address from the 32-bit user address without
\* loss: whenever the user address read, taken as a 32-bit value, gives a sum
\* user_addr + 0x400 + len above 0xBFF (len the payload length), the call
\* returns InvalidRamAddress and issues no bus transaction after the read; in
\* every other case the RAM write goes to user_addr + 0x400.
C37_AddressWithoutLoss ==
    op = "transmit" =>
      LET bus == Bus
          n == Len(bus)
          len == Len(message.buff)
      IN \A i \in 1..n :
            (IsReadOf(bus[i], 112, 4) /\ bus[i].ok /\ pc # "tx_write_fifo") =>
               LET lo == bus[i].rx[3] + 256 * bus[i].rx[4]
                   hi == bus[i].rx[5] + 256 * bus[i].rx[6]
               IN IF hi > 0 \/ lo + 1024 + len > 3071
                  THEN pc = "done" /\ result.t = "InvalidRamAddress" /\ i = n
                  ELSE \/ i = n /\ AbortedAtSelect
                       \/ i < n /\ IsWrite(bus[i + 1]) /\ TxnAddress(bus[i + 1]) = lo + 1024

\* a write of one byte to a filter-control byte
IsFilterControlWrite(x) ==
    IsWrite(x) /\ Len(x.cmd) = 3 /\ TxnAddress(x) \in 464..719

\* C38: across enable_filter, set_filter_object and configure the low five
\* bits of a filter-control byte are changed only by a write with bit 7
\* clear: the first write of a call to such a byte has bit 7 clear, and a
\* write with bit 7 set carries the low five bits of the write to the same
\* byte before it.
C38_RoutingChangesWhileDisabled ==
    op \in { "enable_filter", "set_filter_object", "configure" } =>
      LET bus == Bus IN
      \A i \in 1..Len(bus) :
        IsFilterControlWrite(bus[i]) =>
          LET before == { j \in 1..(i - 1) : /\ IsFilterControlWrite(bus[j])
                                             /\ TxnAddress(bus[j]) = TxnAddress(bus[i]) }
              value == bus[i].cmd[3]
          IN IF before = {}
             THEN value < 128
             ELSE LET j == CHOOSE k \in before : \A l \in before : l <= k IN
                  value % 32 # bus[j].cmd[3] % 32 => value < 128

\* C39: at every return from a public operation in whose call no set_high
\* failed, the chip-select line is deasserted: the last chip-select action
\* that succeeded was set_high, or none succeeded in the call.
C39_SelectReleasedAtReturn ==
    (pc = "done" /\ \A j \in 1..Len(trace) : trace[j].e = "high" => trace[j].ok) =>
      LET pins == { j \in 1..Len(trace) : trace[j].e \in { "low", "high" } /\ trace[j].ok } IN
      pins # {} => trace[CHOOSE k \in pins : \A l \in pins : l <= k].e = "high"

\* C40: for a CanFrame built by CanFrame::new(id, data) with data.len() <= 8,
\* a call of the id() accessor that has ended has returned the identifier the
\* frame was built with.
C40_FrameIdReturned ==
    Done("CanFrame::id") =>
      (Len(new_data) <= 8 /\ result.t = "Ok" /\ result.v = can_frame.identifier
       /\ can_frame.identifier = new_id)
=============================================================================
